---- MODULE Spec2Model ----
(***************************************************************************)
(* Copy-trading pipeline of polymarket_copytrader.                         *)
(*                                                                         *)
(* The repository ships the pipeline twice: the monolith src/main.py       *)
(* (wallet monitor, strategy, risk manager, order placement and the        *)
(* operator routes in one file) and the package src/app (wallet_monitor,   *)
(* strategy, risk, executor, api).  The package does not connect its       *)
(* monitor to its executor, so each is run on its own next to the          *)
(* package's operator routes.  The variable impl says which program a      *)
(* behaviour runs: "main", "monitor" or "executor"; all keep the same      *)
(* ledger tables.                                                          *)
(*                                                                         *)
(* Units.  Sizes are integers in ticks of 1e-4 share (the precision the    *)
(* strategy rounds to), prices are integers in mills (1e-3 USD), USD       *)
(* values are tick-mills (1e-7 USD).  Float arithmetic is modelled as      *)
(* exact rational arithmetic.                                              *)
(*                                                                         *)
(* Ledger.  Each SQLAlchemy session has its own pending rows; a commit     *)
(* moves them to the committed tables at once (read-committed).            *)
(*                                                                         *)
(* Scheduling.  One asyncio event loop: code between two awaits is one     *)
(* step.  The monitor's scan is cut at its awaits (feed fetch, market      *)
(* info, real-trade call, socket broadcast) and once per trade.            *)
(***************************************************************************)
EXTENDS Integers, Sequences, FiniteSets, Bags, TLC

VARIABLES
    impl,            \* "main" (src/main.py), "monitor" or "executor" (src/app)
    settings,        \* the Settings row: mode, status, dry_run_enabled
    account,         \* trading_config.account is configured (main.py)
    is_running,      \* wallet_monitor.is_running
    loops,           \* monitor-loop tasks: position and session of each
    last_monitored,  \* wallet -> last_monitored is set
    leader,          \* committed LeaderTrade rows
    follower,        \* committed FollowerTrade rows, in id order
    events,          \* committed SystemEvent rows (a bag)
    positions,       \* committed Position rows (src/app only)
    inflight,        \* executor calls awaiting the trading port (src/app)
    switch,          \* the switch-mode request being handled (main.py)
    placed,          \* history: external id -> place_order invocations
    seen,            \* history: id -> times handled since a reset (up to 2)
    cycles,          \* monitor cycles started
    ops,             \* operator commands handled
    execs,           \* executor calls started (src/app)
    calc,            \* inputs and outputs of the sizing functions
    reply,           \* the answer to the last HTTP request
    settings_rows,   \* number of rows of the settings table
    executor,        \* the TradeExecutor: built, and its self.settings
    app_config,      \* app/config.py settings (environment of src/app)
    hist             \* history of the current monitor cycle: the status
                     \* when it started, the wallets whose fetch failed,
                     \* the wallets with a trade whose ingestion failed;
                     \* and the failures of the run so far

vars == << impl, settings, account, is_running, loops, last_monitored, leader,
           follower, events, positions, inflight, switch, placed, seen,
           cycles, ops, execs, calc, reply, settings_rows, executor,
           app_config, hist >>

-----------------------------------------------------------------------------
(* Bounds of the model *)

NumExt == 2
NumWallets == 2
MaxBatch == 2
MaxLoops == 1
MaxCycles == 2
MaxOps == 2
MaxExec == 3
NumTasks == 2

ExtIds == 1..NumExt
WalletIds == 1..NumWallets
LoopIds == 1..MaxLoops

RECURSIVE SeqsUpTo(_, _)
SeqsUpTo(S, n) ==
    IF n = 0 THEN { << >> }
    ELSE LET shorter == SeqsUpTo(S, n - 1)
         IN  shorter \cup { Append(s, x) : s \in shorter, x \in S }

\* what one call of the trade feed can return: any list, ids may repeat
Batches == SeqsUpTo(ExtIds, MaxBatch)

-----------------------------------------------------------------------------
(* Program constants *)

TicksPerShare == 10000
UnitsPerDollar == TicksPerShare * 1000

copy_trade_percentage == 20
max_trade_amount == 100
min_market_volume == 1000
max_days_to_resolution == 30
LiveMaxUsd == 1000
TestMaxUsd == 5000
MaxRecentTrades == 10
SlippagePct == 2

Modes == {"TEST", "LIVE"}
Statuses == {"RUNNING", "PAUSED", "STOPPED"}

-----------------------------------------------------------------------------
(* Arithmetic helpers *)

Abs(x) == IF x < 0 THEN -x ELSE x

Min(a, b) == IF a <= b THEN a ELSE b

RECURSIVE GCD(_, _)
GCD(a, b) == IF b = 0 THEN Abs(a) ELSE GCD(b, a % b)

\* round(n/d) to the nearest integer, an exact half to the even neighbour:
\* Python's round(x, 4) on a size of n/d ticks
Round4(n, d) ==
    LET q == n \div d
        r == n % d
    IN  IF 2 * r < d THEN q
        ELSE IF 2 * r > d THEN q + 1
        ELSE IF q % 2 = 0 THEN q ELSE q + 1

\* floor(a * k / p) for p > 0, computed in two parts to stay inside 32-bit
\* integers
MulDiv(a, k, p) == (a \div p) * k + ((a % p) * k) \div p

\* amount * price > dollars, amount in ticks and price in mills
OverDollars(amount, price, dollars) ==
    price > 0 /\ amount > MulDiv(dollars * 10000, 1000, price)

-----------------------------------------------------------------------------
(* The trade feed and the market-data port (external collaborators) *)

\* The trade the feed reports under external id e.  Odd ids are small
\* trades (100 shares at 0.50), even ids large ones (1000 shares at 0.60).
FeedAmount(e) == IF e % 2 = 1 THEN 100 * TicksPerShare ELSE 1000 * TicksPerShare
FeedPrice(e) == IF e % 2 = 1 THEN 500 ELSE 600
FeedMarket(e) == e

\* trade_data as check_wallet_trades hands it to process_trade
TradeData(e) ==
    [id |-> e, market |-> FeedMarket(e), outcome |-> "0", side |-> "buy",
     amount |-> FeedAmount(e), price |-> FeedPrice(e)]

\* what get_market_info can answer: nothing, or the market's metadata
NoMarketInfo == [present |-> FALSE, active |-> FALSE, volume |-> 0,
                 resolution |-> FALSE, days |-> 0]
MarketInfos ==
    {NoMarketInfo} \cup
    [present : {TRUE}, active : BOOLEAN, volume : {500, 50000},
     resolution : BOOLEAN, days : {10, 45}]

-----------------------------------------------------------------------------
(* Sizing: CopyStrategy._calculate_trade_size and the same lines of        *)
(* CopyTradingStrategy.process_leader_trade                                *)

\* The largest base size, in hundredths of a tick, whose USD value
\* base * price does not exceed cap dollars: floor(cap * 10^9 / price)
CapCentiTicks(price, cap) == MulDiv(cap * 1000000, 1000, price)

\* usd_value = base_size * price; if usd_value > max_amount
UsdValueOverCap(size, price, pct, cap) ==
    size * pct > CapCentiTicks(price, cap)

\* usd_value / price before rounding, as the fraction n/d of a tick
\* (0 when price <= 0)
CappedSize(size, price, pct, cap) ==
    IF price <= 0 THEN [n |-> 0, d |-> 1]
    ELSE IF UsdValueOverCap(size, price, pct, cap)
         THEN [n |-> cap * UnitsPerDollar, d |-> price]
         ELSE [n |-> size * pct, d |-> 100]

\* CopyStrategy._calculate_trade_size: round(capped_size, 4)
CopyStrategy_calculate_trade_size(size, price, pct, cap) ==
    LET f == CappedSize(size, price, pct, cap) IN Round4(f.n, f.d)

\* CopyStrategy._apply_slippage: price * (1 + 0.02), in mills
CopyStrategy_apply_slippage(price) == (price * (100 + SlippagePct)) \div 100

\* CopyStrategy.process_leader_trade from the sizing on: the mirror orders
\* it returns (none when the trade size is <= 0)
CopyStrategy_mirror_order(size, price, pct, cap) ==
    LET trade_size == CopyStrategy_calculate_trade_size(size, price, pct, cap)
    IN  IF trade_size <= 0 THEN << >>
        ELSE << [size |-> trade_size,
                 max_price |-> CopyStrategy_apply_slippage(price)] >>

\* CopyStrategy.process_leader_trade (app/strategy.py) after get_market_info
\* answered: the volume and resolution filters, then the sizing; is_active
\* of the MarketDTO is not read
CopyStrategy_process_leader_trade(trade, info, pct, cap) ==
    IF ~info.present THEN << >>
    ELSE IF info.volume < min_market_volume THEN << >>
    ELSE IF info.resolution /\ info.days > max_days_to_resolution THEN << >>
    ELSE CopyStrategy_mirror_order(trade.amount, trade.price, pct, cap)

\* CopyTradingStrategy.process_leader_trade from the sizing on: final_amount
\* is tested before it is rounded
CopyTradingStrategy_order(size, price, pct, cap) ==
    LET f == CappedSize(size, price, pct, cap)
    IN  IF f.n <= 0 THEN << >>
        ELSE << [amount |-> Round4(f.n, f.d), price |-> price] >>

\* CopyTradingStrategy.process_leader_trade after get_market_info answered:
\* the market filters, then the sizing with the configured settings
CopyTradingStrategy_process_leader_trade(trade, info) ==
    IF ~info.present \/ ~info.active THEN << >>
    ELSE IF info.volume < min_market_volume THEN << >>
    ELSE IF info.resolution /\ info.days > max_days_to_resolution THEN << >>
    ELSE CopyTradingStrategy_order(trade.amount, trade.price,
                                   copy_trade_percentage, max_trade_amount)

-----------------------------------------------------------------------------
(* Risk *)

\* RiskManager.can_execute_trade (main.py): the per-mode ceilings and the
\* hourly trade count; recent is the number of FollowerTrade rows the
\* session sees (every row of a run is younger than an hour)
RiskManager_can_execute_trade(order, st, recent) ==
    /\ st.mode = "LIVE" => ~OverDollars(order.amount, order.price, LiveMaxUsd)
    /\ st.mode = "TEST" => ~OverDollars(order.amount, order.price, TestMaxUsd)
    /\ recent < MaxRecentTrades

\* the Settings columns RiskManager (app/risk.py) reads, at their defaults
DefaultLimits ==
    [max_trade_amount |-> 100, max_open_markets |-> 10,
     max_exposure_per_market |-> 100, daily_loss_limit |-> 200,
     max_trades_per_hour |-> 10]

\* time in slots of half an hour: the window of _get_recent_trades_count
\* and the calendar day of _get_daily_pnl
SlotsPerHour == 2
SlotsPerDay == 24 * SlotsPerHour

\* the columns executed_at and pnl of a FollowerTrade row; no statement of
\* the package writes pnl, a row keeps the column default 0.0
Booked(at) == [at |-> at, pnl |-> 0]

\* RiskManager._get_open_markets_count:
\* db.query(Position.market_id).distinct().count()
RiskManager_get_open_markets_count(rows) ==
    Cardinality({ r.market : r \in rows })

\* RiskManager._get_market_exposure: abs(sum(size * average_price)) over
\* the Position rows of the market, in tick-mills
RECURSIVE SumExposure(_)
SumExposure(rows) ==
    IF rows = {} THEN 0
    ELSE LET r == CHOOSE x \in rows : TRUE
         IN  (r.size * r.num) \div r.den + SumExposure(rows \ {r})

RiskManager_get_market_exposure(rows, m) ==
    Abs(SumExposure({ r \in rows : r.market = m }))

\* RiskManager._get_daily_pnl: the sum of pnl over the trades whose
\* executed_at falls on the current date
RECURSIVE RiskManager_get_daily_pnl(_, _)
RiskManager_get_daily_pnl(book, now) ==
    IF book = << >> THEN 0
    ELSE LET t == Head(book)
         IN  (IF t.at \div SlotsPerDay = now \div SlotsPerDay THEN t.pnl ELSE 0)
               + RiskManager_get_daily_pnl(Tail(book), now)

\* RiskManager._get_recent_trades_count:
\* executed_at >= utcnow() - timedelta(hours=1)
RiskManager_get_recent_trades_count(book, now) ==
    Cardinality({ i \in 1..Len(book) : book[i].at >= now - SlotsPerHour })

\* what can_open_trade reads of the ledger for an order on the market m
Snapshot(rows, book, now, m) ==
    [open_markets |-> RiskManager_get_open_markets_count(rows),
     exposure |-> RiskManager_get_market_exposure(rows, m),
     daily_pnl |-> RiskManager_get_daily_pnl(book, now),
     recent |-> RiskManager_get_recent_trades_count(book, now)]

EmptySnapshot == Snapshot({}, << >>, 0, 0)

\* the reason with the exposure rule passing at the limit itself
ReasonAboveTheLimit(order, st, snap) ==
    IF OverDollars(order.size, order.max_price, st.max_trade_amount)
    THEN "Trade size"
    ELSE IF snap.open_markets >= st.max_open_markets THEN "open markets"
    ELSE IF snap.exposure > st.max_exposure_per_market * UnitsPerDollar
    THEN "Market exposure"
    ELSE IF snap.daily_pnl <= -st.daily_loss_limit THEN "Daily PnL"
    ELSE IF snap.recent >= st.max_trades_per_hour THEN "trades this hour"
    ELSE "OK"

\* RiskManager.can_open_trade (app/risk.py): the message it returns, by the
\* rule it names; the first rule that fails returns
RiskManager_reason(order, st, snap) ==
    IF OverDollars(order.size, order.max_price, st.max_trade_amount)
    THEN "Trade size"
    ELSE IF snap.open_markets >= st.max_open_markets THEN "open markets"
    ELSE IF snap.exposure >= st.max_exposure_per_market * UnitsPerDollar
    THEN "Market exposure"
    ELSE IF snap.daily_pnl <= -st.daily_loss_limit THEN "Daily PnL"
    ELSE IF snap.recent >= st.max_trades_per_hour THEN "trades this hour"
    ELSE "OK"

\* the five rules without the rule on the market's exposure
ExposureUnchecked(order, st, snap) ==
    /\ ~OverDollars(order.size, order.max_price, st.max_trade_amount)
    /\ ~(snap.open_markets >= st.max_open_markets)
    /\ ~(snap.daily_pnl <= -st.daily_loss_limit)
    /\ ~(snap.recent >= st.max_trades_per_hour)

\* the five rules with the open-market rule passing at the limit itself
OpenAtTheLimit(order, st, snap) ==
    /\ ~OverDollars(order.size, order.max_price, st.max_trade_amount)
    /\ ~(snap.open_markets > st.max_open_markets)
    /\ ~(snap.exposure >= st.max_exposure_per_market * UnitsPerDollar)
    /\ ~(snap.daily_pnl <= -st.daily_loss_limit)
    /\ ~(snap.recent >= st.max_trades_per_hour)

\* RiskManager.can_open_trade (app/risk.py): the five rules in order, st
\* the Settings, snap the ledger as the rules read it; dollars are compared
\* in tick-mills
RiskManager_can_open_trade(order, st, snap) ==
    /\ ~OverDollars(order.size, order.max_price, st.max_trade_amount)
    /\ ~(snap.open_markets >= st.max_open_markets)
    /\ ~(snap.exposure >= st.max_exposure_per_market * UnitsPerDollar)
    /\ ~(snap.daily_pnl <= -st.daily_loss_limit)
    /\ ~(snap.recent >= st.max_trades_per_hour)

\* PolymarketClient.place_order (main.py): which branch answers
PolymarketClient_place_order(st, acct) ==
    IF st.dry \/ st.mode = "TEST" THEN "simulated"
    ELSE IF acct /\ st.mode = "LIVE" THEN "real"
    ELSE "refused"

-----------------------------------------------------------------------------
(* State at start-up *)

\* Settings column defaults.  initialize_default_data of main.py creates
\* the row and the SYSTEM_START event at import; the package creates the
\* row on the first access.
DefaultSettings == [mode |-> "TEST", status |-> "STOPPED", dry |-> TRUE]

\* a monitor-loop slot with no task in it
IdleLoop ==
    [pc |-> "none", w |-> 0, batch |-> << >>, lt |-> FALSE,
     st |-> DefaultSettings, order |-> << >>, res |-> "none",
     ft |-> << >>, ev |-> << >>]

IdleSwitch == [pc |-> "idle", mode |-> "TEST", reset |-> "no", running |-> FALSE]

NoCalc == [size |-> 0, price |-> 0, pct |-> 0, cap |-> 0, mode |-> "TEST",
           sized |-> {}, app |-> << >>, main |-> << >>,
           can_open |-> "unset", can_execute |-> "unset"]

Event(type, ref) == [type |-> type, ref |-> ref]

\* no request answered yet
NoReply == [route |-> "none", user |-> FALSE, code |-> 0, n |-> 0]

\* the answer of a route to the n-th request (code 0 while the handler has
\* not answered); user: the request carries the session or token of an
\* active user
Reply(route, user, code, n) ==
    [route |-> route, user |-> user, code |-> code, n |-> n]

\* a handler that never finds the bot in the requested status
NeverAlready(st, status) == FALSE

\* if settings.global_trading_status == "RUNNING" (or "STOPPED", "PAUSED"):
\* raise HTTPException(status_code=400, ...)
AlreadyIn(st, status) == st.status = status

\* no TradeExecutor constructed; st is self.settings: the loaded column
\* values, or nothing while the object is expired
NoExecutor == [built |-> FALSE, st |-> << >>]

\* no monitor cycle started yet
NoHist == [status |-> "none", failed |-> {}, lost |-> {}, faults |-> 0]

\* app/config.py: DRY_RUN_ENABLED defaults to True
DefaultConfig == [DRY_RUN_ENABLED |-> TRUE]

\* a lookup that adds a row whatever the table holds
AlwaysCreated(rows) == rows + 1

\* settings = db.query(Settings).first(); if not settings: db.add(Settings())
\* (get_current_settings, _load_settings, the routes of main.py): the
\* number of rows after the commit
LazyCreated(rows) == IF rows = 0 THEN 1 ELSE rows

Init ==
    /\ impl \in {"main", "monitor", "executor"}
    /\ settings = DefaultSettings
    /\ account \in (IF impl = "main" THEN BOOLEAN ELSE {FALSE})
    /\ is_running = FALSE
    /\ loops = [l \in LoopIds |-> IdleLoop]
    /\ last_monitored = [w \in WalletIds |-> FALSE]
    /\ leader = << >>
    /\ follower = << >>
    /\ events = (IF impl = "main" THEN SetToBag({Event("SYSTEM_START", 0)})
                 ELSE EmptyBag)
    /\ positions = {}
    /\ inflight = EmptyBag
    /\ switch = IdleSwitch
    /\ placed = [x \in ExtIds |-> 0]
    /\ seen = [x \in ExtIds |-> 0]
    /\ cycles = 0
    /\ ops = 0
    /\ execs = 0
    /\ calc = NoCalc
    /\ reply = NoReply
    /\ settings_rows = (IF impl = "main" THEN 1 ELSE 0)
    /\ executor = NoExecutor
    /\ app_config \in (IF impl = "executor" THEN [DRY_RUN_ENABLED : BOOLEAN]
                       ELSE {DefaultConfig})
    /\ hist = NoHist

-----------------------------------------------------------------------------
(* WalletMonitor of main.py *)

appVars == << positions, inflight, execs, calc, executor, app_config >>

\* what the monitor never touches: the HTTP answer, the settings table
\* (hist changes when a cycle starts and when a fetch fails)
webVars == << reply, settings_rows, hist >>

\* the history after one more handling of the id x
Handled(h, x) == [h EXCEPT ![x] = Min(@ + 1, 2)]

\* a lookup that never finds the id
NeverFound(rows, x) == FALSE

\* the leader_trades index on external_trade_id: rows holds the id x
HasExternalId(rows, x) == \E i \in 1..Len(rows) : rows[i].ext = x

\* db.query(LeaderTrade).filter(external_trade_id == x).first()
ExistingTrade(x) == HasExternalId(leader, x)

\* db.flush() of a LeaderTrade with id x is refused by the unique index: a
\* committed row, or a row another session has flushed, holds the id
FlushConflict(l, x) ==
    \/ HasExternalId(leader, x)
    \/ \E m \in DOMAIN loops :
          m # l /\ loops[m].lt /\ Head(loops[m].batch) = x

\* db.commit() of the monitor session lp
CommittedLeader(lp) ==
    IF lp.lt THEN Append(leader, [ext |-> Head(lp.batch), w |-> lp.w])
    ELSE leader
CommittedEvents(lp) ==
    IF lp.ev = << >> THEN events ELSE events (+) SetToBag({lp.ev[1]})

\* the cycle given up where it stands: the task goes to its sleep
CycleAborted(lp) == [IdleLoop EXCEPT !.pc = "top"]

\* the task's position after the trade at the head of its batch is done:
\* next trade, else the wallet is stamped and the next wallet or the sleep
AfterTrade(lp) ==
    IF Tail(lp.batch) # << >>
    THEN [IdleLoop EXCEPT !.pc = "trade", !.w = lp.w, !.batch = Tail(lp.batch)]
    ELSE IF lp.w < NumWallets
         THEN [IdleLoop EXCEPT !.pc = "fetch", !.w = lp.w + 1]
         ELSE [IdleLoop EXCEPT !.pc = "top"]
Stamped(lp) ==
    IF Tail(lp.batch) # << >> THEN last_monitored
    ELSE [last_monitored EXCEPT ![lp.w] = TRUE]

\* start_monitoring, first lines: a second loop returns at once
LoopBegin(l) ==
    /\ impl = "main"
    /\ loops[l].pc = "new"
    /\ IF is_running
       THEN /\ loops' = [loops EXCEPT ![l] = IdleLoop]
            /\ UNCHANGED is_running
       ELSE /\ is_running' = TRUE
            /\ loops' = [loops EXCEPT ![l].pc = "top"]
    /\ UNCHANGED << impl, settings, account, last_monitored, leader, follower,
                    events, switch, placed, seen, cycles, ops, appVars, webVars >>

\* while self.is_running: monitor_cycle() opens a session, first wallet
CycleStart(l) ==
    /\ impl = "main"
    /\ loops[l].pc = "top"
    /\ is_running
    /\ cycles < MaxCycles
    /\ cycles' = cycles + 1
    /\ loops' = [loops EXCEPT ![l] = [IdleLoop EXCEPT !.pc = "fetch", !.w = 1]]
    /\ hist' = [hist EXCEPT !.status = settings.status, !.failed = {},
                            !.lost = {}]
    /\ UNCHANGED << impl, settings, account, is_running, last_monitored, leader,
                    follower, events, switch, placed, seen, ops, appVars,
                    reply, settings_rows >>

\* the while condition is false: the task ends
LoopExit(l) ==
    /\ impl = "main"
    /\ loops[l].pc = "top"
    /\ ~is_running
    /\ loops' = [loops EXCEPT ![l] = IdleLoop]
    /\ UNCHANGED << impl, settings, account, is_running, last_monitored, leader,
                    follower, events, switch, placed, seen, cycles, ops,
                    appVars, webVars >>

\* check_wallet_trades: get_wallet_trades answers with the list b
FetchReturn(l, b) ==
    /\ impl = "main"
    /\ loops[l].pc = "fetch"
    /\ loops' = [loops EXCEPT ![l] =
          IF b # << >>
          THEN [IdleLoop EXCEPT !.pc = "trade", !.w = loops[l].w, !.batch = b]
          ELSE IF loops[l].w < NumWallets
               THEN [IdleLoop EXCEPT !.pc = "fetch", !.w = loops[l].w + 1]
               ELSE [IdleLoop EXCEPT !.pc = "top"]]
    /\ UNCHANGED << impl, settings, account, is_running, last_monitored, leader,
                    follower, events, switch, placed, seen, cycles, ops,
                    appVars, webVars >>

\* process_trade up to the first await: duplicate check, add and flush of
\* the LeaderTrade, the strategy's status gate
ProcessTrade(l) ==
    LET lp == loops[l]
        x  == Head(lp.batch)
    IN
    /\ impl = "main"
    /\ lp.pc = "trade"
    /\ IF ExistingTrade(x)
       THEN \* existing_trade: return
            /\ loops' = [loops EXCEPT ![l] = AfterTrade(lp)]
            /\ last_monitored' = Stamped(lp)
            /\ seen' = Handled(seen, x)
            /\ UNCHANGED leader
       ELSE IF FlushConflict(l, x)
       THEN \* db.flush() raises, except: db.rollback()
            /\ loops' = [loops EXCEPT ![l] = AfterTrade(lp)]
            /\ last_monitored' = Stamped(lp)
            /\ UNCHANGED << leader, seen >>
       ELSE IF settings.status # "RUNNING"
       THEN \* the strategy returns None at once; db.commit()
            /\ leader' = Append(leader, [ext |-> x, w |-> lp.w])
            /\ loops' = [loops EXCEPT ![l] = AfterTrade(lp)]
            /\ last_monitored' = Stamped(lp)
            /\ seen' = Handled(seen, x)
       ELSE \* await client.get_market_info(...)
            /\ loops' = [loops EXCEPT ![l] =
                  [lp EXCEPT !.pc = "minfo", !.lt = TRUE, !.st = settings]]
            /\ UNCHANGED << last_monitored, leader, seen >>
    /\ UNCHANGED << impl, settings, account, is_running, follower, events,
                    switch, placed, cycles, ops, appVars, webVars >>

\* an event that reports every attempt as executed
AlwaysExecutedEvent(x, ok) == Event("TRADE_EXECUTED", x)

\* the FollowerTrade and SystemEvent execute_mirror_trade adds for a result
MirrorRow(x, order, ok, dry) ==
    [ref |-> x, market |-> FeedMarket(x), outcome |-> "0", side |-> "buy",
     size |-> order.amount, price |-> order.price,
     status |-> IF ok THEN "EXECUTED" ELSE "FAILED", dry |-> dry]
MirrorEvent(x, ok) ==
    Event(IF ok THEN "TRADE_EXECUTED" ELSE "TRADE_FAILED", x)

\* process_trade from the market-info answer to the next await: strategy
\* filters and sizing, risk check, place_order on a fresh settings read
MarketInfoReturn(l, info) ==
    LET lp     == loops[l]
        x      == Head(lp.batch)
        orders == CopyTradingStrategy_process_leader_trade(TradeData(x), info)
        path   == PolymarketClient_place_order(settings, account)
    IN
    /\ impl = "main"
    /\ lp.pc = "minfo"
    /\ IF \/ orders = << >>
          \/ ~RiskManager_can_execute_trade(orders[1], lp.st, Len(follower))
       THEN \* no mirror trade, or the risk check failed: db.commit()
            /\ leader' = CommittedLeader(lp)
            /\ loops' = [loops EXCEPT ![l] = AfterTrade(lp)]
            /\ last_monitored' = Stamped(lp)
            /\ seen' = Handled(seen, x)
            /\ UNCHANGED placed
       ELSE \* execute_mirror_trade: client.place_order(...)
            /\ placed' = [placed EXCEPT ![x] = @ + 1]
            /\ loops' = [loops EXCEPT ![l] =
                  IF path = "real"
                  THEN [lp EXCEPT !.pc = "port", !.order = orders, !.res = path]
                  ELSE [lp EXCEPT
                          !.pc = "emit", !.order = orders, !.res = path,
                          !.ft = << MirrorRow(x, orders[1],
                                              path = "simulated", lp.st.dry) >>,
                          !.ev = << MirrorEvent(x, path = "simulated") >>]]
            /\ UNCHANGED << last_monitored, leader, seen >>
    /\ UNCHANGED << impl, settings, account, is_running, follower, events,
                    switch, cycles, ops, appVars, webVars >>

\* _execute_real_trade answers (ok) or fails (market not found, exception);
\* execute_mirror_trade adds the rows and awaits the broadcast
PortReturn(l, ok) ==
    LET lp    == loops[l]
        x     == Head(lp.batch)
        order == lp.order[1]
    IN
    /\ impl = "main"
    /\ lp.pc = "port"
    /\ loops' = [loops EXCEPT ![l] =
          [lp EXCEPT !.pc = "emit",
                     !.res = IF ok THEN "filled" ELSE "failed",
                     !.ft = << MirrorRow(x, order, ok, lp.st.dry) >>,
                     !.ev = << MirrorEvent(x, ok) >>]]
    /\ UNCHANGED << impl, settings, account, is_running, last_monitored, leader,
                    follower, events, switch, placed, seen, cycles, ops,
                    appVars, webVars >>

\* the broadcast returns (or raises, which execute_mirror_trade swallows);
\* process_trade commits LeaderTrade, FollowerTrade and SystemEvent
EmitReturn(l) ==
    LET lp == loops[l]
    IN
    /\ impl = "main"
    /\ lp.pc = "emit"
    /\ leader' = CommittedLeader(lp)
    /\ follower' = follower \o lp.ft
    /\ events' = CommittedEvents(lp)
    /\ loops' = [loops EXCEPT ![l] = AfterTrade(lp)]
    /\ last_monitored' = Stamped(lp)
    /\ seen' = Handled(seen, Head(lp.batch))
    /\ UNCHANGED << impl, settings, account, is_running, switch, placed,
                    cycles, ops, appVars, webVars >>

-----------------------------------------------------------------------------
(* Operator routes of main.py *)

loopVars == << loops, cycles, hist >>

\* POST /api/bot/start: status RUNNING, BOT_STARTED, a new monitor task.
\* While RUNNING the handler raises HTTPException(400) inside its try; the
\* except clause rolls back and answers 500.  main.py keeps no session and
\* reads no token (login answers with a bare redirect): no request carries
\* an authenticated user.
start_bot(l) ==
    /\ impl = "main"
    /\ ops < MaxOps
    /\ ops' = ops + 1
    /\ IF AlreadyIn(settings, "RUNNING")
       THEN /\ reply' = Reply("start", FALSE, 500, ops + 1)
            /\ UNCHANGED << settings, events, loops, settings_rows >>
       ELSE /\ loops[l].pc = "none"
            /\ settings' = [settings EXCEPT !.status = "RUNNING"]
            /\ events' = events (+) SetToBag({Event("BOT_STARTED", 0)})
            /\ loops' = [loops EXCEPT ![l].pc = "new"]
            /\ settings_rows' = LazyCreated(settings_rows)
            /\ reply' = Reply("start", FALSE, 200, ops + 1)
    /\ UNCHANGED << impl, account, is_running, last_monitored, leader, follower,
                    switch, placed, seen, cycles, appVars, hist >>

\* POST /api/bot/stop: status STOPPED, BOT_STOPPED, stop_monitoring()
stop_bot ==
    /\ impl = "main"
    /\ ops < MaxOps
    /\ ops' = ops + 1
    /\ IF AlreadyIn(settings, "STOPPED")
       THEN /\ reply' = Reply("stop", FALSE, 500, ops + 1)
            /\ UNCHANGED << settings, events, is_running, settings_rows >>
       ELSE /\ settings' = [settings EXCEPT !.status = "STOPPED"]
            /\ events' = events (+) SetToBag({Event("BOT_STOPPED", 0)})
            /\ is_running' = FALSE
            /\ settings_rows' = LazyCreated(settings_rows)
            /\ reply' = Reply("stop", FALSE, 200, ops + 1)
    /\ UNCHANGED << impl, account, last_monitored, leader, follower, switch,
                    placed, seen, loopVars, appVars >>

\* POST /api/bot/pause: status PAUSED, BOT_PAUSED, stop_monitoring()
pause_bot ==
    /\ impl = "main"
    /\ ops < MaxOps
    /\ ops' = ops + 1
    /\ IF AlreadyIn(settings, "PAUSED")
       THEN /\ reply' = Reply("pause", FALSE, 500, ops + 1)
            /\ UNCHANGED << settings, events, is_running, settings_rows >>
       ELSE /\ settings' = [settings EXCEPT !.status = "PAUSED"]
            /\ events' = events (+) SetToBag({Event("BOT_PAUSED", 0)})
            /\ is_running' = FALSE
            /\ settings_rows' = LazyCreated(settings_rows)
            /\ reply' = Reply("pause", FALSE, 200, ops + 1)
    /\ UNCHANGED << impl, account, last_monitored, leader, follower, switch,
                    placed, seen, loopVars, appVars >>

\* request bodies of POST /api/settings: each key is absent ("keep") or
\* carries a value
SettingsData ==
    [mode : {"keep"} \cup Modes, status : {"keep"} \cup Statuses,
     dry : {"keep", "on", "off"}]

\* for key, value in data.items(): setattr(settings, key, value)
Updated(st, data) ==
    [mode   |-> IF data.mode = "keep" THEN st.mode ELSE data.mode,
     status |-> IF data.status = "keep" THEN st.status ELSE data.status,
     dry    |-> IF data.dry = "keep" THEN st.dry ELSE data.dry = "on"]

\* POST /api/settings (main.py)
update_settings(data) ==
    /\ impl = "main"
    /\ ops < MaxOps
    /\ settings' = Updated(settings, data)
    /\ events' = events (+) SetToBag({Event("SETTINGS_UPDATED", 0)})
    /\ settings_rows' = LazyCreated(settings_rows)
    /\ reply' = Reply("settings", FALSE, 200, ops + 1)
    /\ ops' = ops + 1
    /\ UNCHANGED << impl, account, is_running, last_monitored, leader, follower,
                    switch, placed, seen, loopVars, appVars >>

\* POST /api/settings/switch-mode arrives; the handler awaits the body.
\* reset is the reset_analytics key: "absent", "yes" or "no".
SwitchRequest(m, r) ==
    /\ impl = "main"
    /\ ops < MaxOps
    /\ switch.pc = "idle"
    /\ switch' = [pc |-> "body", mode |-> m, reset |-> r,
                  running |-> settings.status = "RUNNING"]
    /\ ops' = ops + 1
    /\ reply' = Reply("switch", FALSE, 0, ops + 1)
    /\ UNCHANGED << impl, settings, account, is_running, last_monitored, leader,
                    follower, events, placed, seen, loopVars, appVars,
                    settings_rows >>

\* data.get("reset_analytics", True)
ResetRequested(r) == r # "no"

\* the MODE_SWITCHED event; its message ends "Analytics reset: True/False"
ModeSwitched(reset) == Event("MODE_SWITCHED", IF reset THEN 1 ELSE 0)

\* switch_trading_mode from the body to the broadcast
switch_trading_mode ==
    LET stop  == settings.status = "RUNNING"
        reset == ResetRequested(switch.reset)
    IN
    /\ impl = "main"
    /\ switch.pc = "body"
    /\ IF settings.mode = switch.mode
       THEN \* "Already in ... mode"
            /\ switch' = IdleSwitch
            /\ reply' = Reply("switch", FALSE, 200, ops)
            /\ UNCHANGED << settings, is_running, leader, follower,
                            last_monitored, seen, events, settings_rows >>
       ELSE /\ is_running' = IF stop THEN FALSE ELSE is_running
            /\ settings' =
                  [mode   |-> switch.mode,
                   status |-> IF stop THEN "STOPPED" ELSE settings.status,
                   dry    |-> IF switch.mode = "TEST" THEN TRUE
                              ELSE settings.dry]
            /\ leader' = IF reset THEN << >> ELSE leader
            /\ follower' = IF reset THEN << >> ELSE follower
            /\ last_monitored' = IF reset THEN [w \in WalletIds |-> FALSE]
                                 ELSE last_monitored
            /\ seen' = IF reset THEN [x \in ExtIds |-> 0] ELSE seen
            /\ events' = events (+) SetToBag({ModeSwitched(reset)})
            /\ settings_rows' = LazyCreated(settings_rows)
            /\ switch' = [switch EXCEPT !.pc = "emit"]
            /\ UNCHANGED reply
    /\ UNCHANGED << impl, account, placed, ops, loopVars, appVars >>

\* the mode_update broadcast returns and the handler answers
SwitchDone ==
    /\ impl = "main"
    /\ switch.pc = "emit"
    /\ switch' = IdleSwitch
    /\ reply' = Reply("switch", FALSE, 200, ops)
    /\ UNCHANGED << impl, settings, account, is_running, last_monitored, leader,
                    follower, events, placed, seen, ops, loopVars, appVars,
                    settings_rows >>

\* POST /api/analytics/reset: reset_trading_analytics, ANALYTICS_RESET
reset_analytics ==
    /\ impl = "main"
    /\ ops < MaxOps
    /\ leader' = << >>
    /\ follower' = << >>
    /\ last_monitored' = [w \in WalletIds |-> FALSE]
    /\ seen' = [x \in ExtIds |-> 0]
    /\ events' = events (+) SetToBag({Event("ANALYTICS_RESET", 0)})
    /\ reply' = Reply("reset", FALSE, 200, ops + 1)
    /\ ops' = ops + 1
    /\ UNCHANGED << impl, settings, account, is_running, switch, placed,
                    loopVars, appVars, settings_rows >>

\* POST /api/events/clear: db.query(SystemEvent).delete()
clear_events ==
    /\ impl = "main"
    /\ ops < MaxOps
    /\ events' = EmptyBag
    /\ reply' = Reply("clear", FALSE, 200, ops + 1)
    /\ ops' = ops + 1
    /\ UNCHANGED << impl, settings, account, is_running, last_monitored, leader,
                    follower, switch, placed, seen, loopVars, appVars,
                    settings_rows >>

\* GET /dashboard (main.py): the template, to any request
dashboard ==
    /\ impl = "main"
    /\ ops < MaxOps
    /\ reply' = Reply("dashboard", FALSE, 200, ops + 1)
    /\ ops' = ops + 1
    /\ UNCHANGED << impl, settings, account, is_running, last_monitored, leader,
                    follower, events, switch, placed, seen, loopVars, appVars,
                    settings_rows >>

MainNext ==
    \/ \E l \in LoopIds : LoopBegin(l)
    \/ \E l \in LoopIds : CycleStart(l)
    \/ \E l \in LoopIds : LoopExit(l)
    \/ \E l \in LoopIds, b \in Batches : FetchReturn(l, b)
    \/ \E l \in LoopIds : ProcessTrade(l)
    \/ \E l \in LoopIds, info \in MarketInfos : MarketInfoReturn(l, info)
    \/ \E l \in LoopIds, ok \in BOOLEAN : PortReturn(l, ok)
    \/ \E l \in LoopIds : EmitReturn(l)
    \/ \E l \in LoopIds : start_bot(l)
    \/ stop_bot
    \/ pause_bot
    \/ \E data \in SettingsData : update_settings(data)
    \/ \E m \in Modes, r \in {"absent", "yes", "no"} : SwitchRequest(m, r)
    \/ switch_trading_mode
    \/ SwitchDone
    \/ reset_analytics
    \/ clear_events
    \/ dashboard

-----------------------------------------------------------------------------
(* WalletMonitor of app/wallet_monitor.py.  Nothing in the package calls   *)
(* start_monitoring or stop_monitoring; the two calls are taken from the   *)
(* specification's controller.                                             *)

coreVars == << follower, positions, inflight, execs, calc, placed, switch,
              executor, app_config >>

\* _process_leader_trade over the fetched list b, in order: a trade whose
\* id exists is skipped, another is added and committed
RECURSIVE Ingested(_, _, _)
Ingested(rows, b, w) ==
    IF b = << >> THEN rows
    ELSE IF HasExternalId(rows, Head(b)) THEN Ingested(rows, Tail(b), w)
    ELSE Ingested(Append(rows, [ext |-> Head(b), w |-> w]), Tail(b), w)

\* the LEADER_TRADE events of the rows added after the first n
RECURSIVE LeaderEvents(_, _)
LeaderEvents(rows, n) ==
    IF Len(rows) <= n THEN EmptyBag
    ELSE SetToBag({Event("LEADER_TRADE", rows[Len(rows)].ext)})
         (+) LeaderEvents(SubSeq(rows, 1, Len(rows) - 1), n)

\* the history after every id of the list b was handled
RECURSIVE HandledAll(_, _)
HandledAll(h, b) ==
    IF b = << >> THEN h ELSE HandledAll(Handled(h, Head(b)), Tail(b))

\* start_monitoring: is_running = True, then the loop
AppStartMonitoring(l) ==
    /\ impl = "monitor"
    /\ ops < MaxOps
    /\ loops[l].pc = "none"
    /\ is_running' = TRUE
    /\ loops' = [loops EXCEPT ![l].pc = "top"]
    /\ ops' = ops + 1
    /\ UNCHANGED << impl, settings, account, last_monitored, leader, events,
                    seen, cycles, coreVars, webVars >>

\* stop_monitoring
AppStopMonitoring ==
    /\ impl = "monitor"
    /\ ops < MaxOps
    /\ is_running
    /\ is_running' = FALSE
    /\ ops' = ops + 1
    /\ UNCHANGED << impl, settings, account, last_monitored, leader, events,
                    seen, loopVars, coreVars, webVars >>

\* while self.is_running: _monitor_cycle(), first wallet
AppCycleStart(l) ==
    /\ impl = "monitor"
    /\ loops[l].pc = "top"
    /\ is_running
    /\ cycles < MaxCycles
    /\ cycles' = cycles + 1
    /\ loops' = [loops EXCEPT ![l] = [IdleLoop EXCEPT !.pc = "fetch", !.w = 1]]
    /\ hist' = [hist EXCEPT !.status = settings.status, !.failed = {},
                            !.lost = {}]
    /\ UNCHANGED << impl, settings, account, is_running, last_monitored, leader,
                    events, seen, ops, coreVars, reply, settings_rows >>

AppLoopExit(l) ==
    /\ impl = "monitor"
    /\ loops[l].pc = "top"
    /\ ~is_running
    /\ loops' = [loops EXCEPT ![l] = IdleLoop]
    /\ UNCHANGED << impl, settings, account, is_running, last_monitored, leader,
                    events, seen, cycles, ops, coreVars, webVars >>

\* _check_wallet_trades: get_trades_for_wallet answers with b; every trade
\* is processed, the wallet is stamped, the next wallet follows
AppFetchReturn(l, b) ==
    LET w == loops[l].w
    IN
    /\ impl = "monitor"
    /\ loops[l].pc = "fetch"
    /\ leader' = Ingested(leader, b, w)
    /\ events' = events (+) LeaderEvents(leader', Len(leader))
    /\ seen' = HandledAll(seen, b)
    /\ last_monitored' = [last_monitored EXCEPT ![w] = TRUE]
    /\ loops' = [loops EXCEPT ![l] =
          IF w < NumWallets
          THEN [IdleLoop EXCEPT !.pc = "fetch", !.w = w + 1]
          ELSE [IdleLoop EXCEPT !.pc = "top"]]
    /\ UNCHANGED << impl, settings, account, is_running, cycles, ops,
                    coreVars, webVars >>

-----------------------------------------------------------------------------
(* Operator routes of app/api.py: they write the Settings row only *)

monitorVars == << is_running, last_monitored, leader, seen, loops, cycles,
                 hist >>

\* Depends(get_current_user) found no active user for the request: the
\* route is not entered, the answer is an HTTP error
Unauthenticated(route) ==
    /\ reply' = Reply(route, FALSE, 403, ops + 1)
    /\ UNCHANGED << settings, events, settings_rows >>

\* POST /api/bot/start (app/api.py)
ApiStartBot(user) ==
    /\ impl \in {"monitor", "executor"}
    /\ ops < MaxOps
    /\ ops' = ops + 1
    /\ IF ~user THEN Unauthenticated("start")
       ELSE /\ settings_rows' = LazyCreated(settings_rows)
            /\ IF AlreadyIn(settings, "RUNNING")
               THEN /\ reply' = Reply("start", user, 400, ops + 1)
                    /\ UNCHANGED << settings, events >>
               ELSE /\ settings' = [settings EXCEPT !.status = "RUNNING"]
                    /\ events' = events (+) SetToBag({Event("BOT_STARTED", 0)})
                    /\ reply' = Reply("start", user, 200, ops + 1)
    /\ UNCHANGED << impl, account, monitorVars, coreVars >>

\* POST /api/bot/stop (app/api.py)
ApiStopBot(user) ==
    /\ impl \in {"monitor", "executor"}
    /\ ops < MaxOps
    /\ ops' = ops + 1
    /\ IF ~user THEN Unauthenticated("stop")
       ELSE /\ settings_rows' = LazyCreated(settings_rows)
            /\ IF AlreadyIn(settings, "STOPPED")
               THEN /\ reply' = Reply("stop", user, 400, ops + 1)
                    /\ UNCHANGED << settings, events >>
               ELSE /\ settings' = [settings EXCEPT !.status = "STOPPED"]
                    /\ events' = events (+) SetToBag({Event("BOT_STOPPED", 0)})
                    /\ reply' = Reply("stop", user, 200, ops + 1)
    /\ UNCHANGED << impl, account, monitorVars, coreVars >>

\* POST /api/bot/pause (app/api.py)
ApiPauseBot(user) ==
    /\ impl \in {"monitor", "executor"}
    /\ ops < MaxOps
    /\ ops' = ops + 1
    /\ IF ~user THEN Unauthenticated("pause")
       ELSE /\ settings_rows' = LazyCreated(settings_rows)
            /\ IF AlreadyIn(settings, "PAUSED")
               THEN /\ reply' = Reply("pause", user, 400, ops + 1)
                    /\ UNCHANGED << settings, events >>
               ELSE /\ settings' = [settings EXCEPT !.status = "PAUSED"]
                    /\ events' = events (+) SetToBag({Event("BOT_PAUSED", 0)})
                    /\ reply' = Reply("pause", user, 200, ops + 1)
    /\ UNCHANGED << impl, account, monitorVars, coreVars >>

\* POST /api/settings (app/api.py)
ApiUpdateSettings(data, user) ==
    /\ impl \in {"monitor", "executor"}
    /\ ops < MaxOps
    /\ ops' = ops + 1
    /\ IF ~user THEN Unauthenticated("settings")
       ELSE /\ settings_rows' = LazyCreated(settings_rows)
            /\ settings' = Updated(settings, data)
            /\ events' = events (+) SetToBag({Event("SETTINGS_UPDATED", 0)})
            /\ reply' = Reply("settings", user, 200, ops + 1)
    /\ UNCHANGED << impl, account, monitorVars, coreVars >>

\* GET /dashboard (app/api.py): the page reads the settings
ApiDashboard(user) ==
    /\ impl \in {"monitor", "executor"}
    /\ ops < MaxOps
    /\ ops' = ops + 1
    /\ IF ~user THEN Unauthenticated("dashboard")
       ELSE /\ settings_rows' = LazyCreated(settings_rows)
            /\ reply' = Reply("dashboard", user, 200, ops + 1)
            /\ UNCHANGED << settings, events >>
    /\ UNCHANGED << impl, account, monitorVars, coreVars >>

-----------------------------------------------------------------------------
(* TradeExecutor of app/executor.py.  Nothing in the package calls          *)
(* execute_order; the orders are those a strategy can hand over.            *)

\* sizes of 10 and 15 shares, limit prices 0.40 and 0.60
MirrorOrders ==
    [ref : {1}, market : {1}, outcome : {"0"}, side : {"YES", "NO"},
     size : {10 * TicksPerShare, 15 * TicksPerShare}, max_price : {400, 600}]

\* the FollowerTrade the executor records for an order
ExecutorRow(order, status, dry) ==
    [ref |-> order.ref, market |-> order.market, outcome |-> order.outcome,
     side |-> order.side, size |-> order.size, price |-> order.max_price,
     status |-> status, dry |-> dry]

\* the Position rows of a (market, outcome) pair
PositionsOf(rows, m, o) == { r \in rows : r.market = m /\ r.outcome = o }

\* the plain mean of the old average and the execution price
UnweightedAverage(pos, s, p) ==
    LET h == GCD(pos.num + p * pos.den, 2 * pos.den)
    IN  [num |-> (pos.num + p * pos.den) \div h, den |-> (2 * pos.den) \div h]

\* a position closes only below zero
ClosedBelowZero(total_size) == total_size < 0

\* a reduction that leaves the size as it was
NotReduced(position_size, order_size) == position_size

\* total_size = position.size - order.size
ReducedSize(position_size, order_size) == position_size - order_size

\* if total_size <= 0: the position is closed or reversed
PositionClosed(total_size) == total_size <= 0

\* (S * A + s * p) / (S + s) with A = num/den, as a reduced fraction
MergedAverage(pos, s, p) ==
    LET g    == GCD(pos.size, pos.den)
        d    == pos.den \div g
        cost == (pos.size \div g) * pos.num + s * p * d
        den  == d * (pos.size + s)
        h    == GCD(cost, den)
    IN  [num |-> cost \div h, den |-> den \div h]

\* a position written from what a task read before the other task's
\* commit: the row of the pair is replaced by the order alone
StaleUpdate(rows, order, execution_price) ==
    IF order.side = "YES"
    THEN (rows \ PositionsOf(rows, order.market, order.outcome)) \cup
         {[market |-> order.market, outcome |-> order.outcome,
           size |-> order.size, num |-> execution_price, den |-> 1]}
    ELSE rows \ PositionsOf(rows, order.market, order.outcome)

\* TradeExecutor._update_position
TradeExecutor_update_position(rows, order, execution_price) ==
    LET found == PositionsOf(rows, order.market, order.outcome)
    IN
    IF found # {}
    THEN LET position == CHOOSE r \in found : TRUE
         IN  IF order.side = "YES"
             THEN LET total_size == position.size + order.size
                      avg == IF total_size > 0
                             THEN MergedAverage(position, order.size,
                                                execution_price)
                             ELSE [num |-> 0, den |-> 1]
                  IN  (rows \ {position}) \cup
                      {[position EXCEPT !.size = total_size,
                                        !.num = avg.num, !.den = avg.den]}
             ELSE LET total_size == ReducedSize(position.size, order.size)
                  IN  IF PositionClosed(total_size)
                      THEN rows \ {position}
                      ELSE (rows \ {position}) \cup
                           {[position EXCEPT !.size = total_size]}
    ELSE IF order.side = "YES" /\ order.size > 0
         THEN rows \cup {[market |-> order.market, outcome |-> order.outcome,
                          size |-> order.size, num |-> execution_price,
                          den |-> 1]}
         ELSE rows

execVars == << impl, settings, account, is_running, loops, last_monitored,
               leader, switch, placed, seen, cycles, ops, calc, reply,
               app_config, hist >>

\* TradeExecutor(db) on a session of its own: _load_settings reads the row
\* (the values stay loaded on self.settings), or creates and commits it
\* (the commit expires the object)
TradeExecutor_init ==
    /\ impl = "executor"
    /\ inflight = EmptyBag
    /\ settings_rows' = LazyCreated(settings_rows)
    /\ executor' = [built |-> TRUE,
                    st |-> IF settings_rows = 0 THEN << >> ELSE << settings >>]
    /\ UNCHANGED << follower, positions, events, inflight, execs >>
    /\ UNCHANGED execVars

\* what an attribute of self.settings reads: the loaded values, or the row
\* as it is now when the object is expired (every commit of the executor's
\* session expires it)
SelfSettings == IF executor.st = << >> THEN settings ELSE executor.st[1]

\* execute_order: the status gate on self.settings, then _execute_dry_run
\* in one step, or _execute_live_trade: client.place_order answers at once
\* when DRY_RUN_ENABLED is configured, else it awaits the trading venue
execute_order(order) ==
    LET st == SelfSettings
    IN
    /\ impl = "executor"
    /\ executor.built
    /\ execs < MaxExec
    /\ execs' = execs + 1
    /\ IF st.status # "RUNNING"
       THEN \* "Trading not RUNNING, skipping execution"
            /\ executor' = [executor EXCEPT !.st = << st >>]
            /\ UNCHANGED << follower, positions, events, inflight >>
       ELSE IF st.dry
       THEN /\ follower' = Append(follower,
                                  ExecutorRow(order, "SIMULATED", TRUE))
            /\ positions' = TradeExecutor_update_position(positions, order,
                                                          order.max_price)
            /\ events' = events (+)
                         SetToBag({Event("TRADE_EXECUTED", order.ref)})
            /\ executor' = [executor EXCEPT !.st = << >>]
            /\ UNCHANGED inflight
       ELSE IF app_config.DRY_RUN_ENABLED
       THEN \* OrderResult(True, "dry_run_..."): recorded as EXECUTED
            /\ follower' = Append(follower,
                                  ExecutorRow(order, "EXECUTED", FALSE))
            /\ positions' = TradeExecutor_update_position(positions, order,
                                                          order.max_price)
            /\ events' = events (+)
                         SetToBag({Event("TRADE_EXECUTED", order.ref)})
            /\ executor' = [executor EXCEPT !.st = << >>]
            /\ UNCHANGED inflight
       ELSE \* "Placing LIVE order": the call is with the venue
            /\ inflight' = inflight (+)
                           SetToBag({[order |-> order, res |-> "waiting"]})
            /\ executor' = [executor EXCEPT !.st = << st >>]
            /\ UNCHANGED << follower, positions, events >>
    /\ UNCHANGED settings_rows
    /\ UNCHANGED execVars

\* client.place_order answers: an order id, or an error it caught
PlaceOrderAnswer(call, ok) ==
    /\ impl = "executor"
    /\ call.res = "waiting"
    /\ BagIn(call, inflight)
    /\ inflight' = (inflight (-) SetToBag({call})) (+)
                   SetToBag({[call EXCEPT
                                !.res = IF ok THEN "filled" ELSE "failed"]})
    /\ UNCHANGED << follower, positions, events, execs, executor,
                    settings_rows >>
    /\ UNCHANGED execVars

\* _execute_live_trade resumes with the result
ExecuteLiveResume(call) ==
    /\ impl = "executor"
    /\ call.res # "waiting"
    /\ BagIn(call, inflight)
    /\ inflight' = inflight (-) SetToBag({call})
    /\ IF call.res = "filled"
       THEN /\ follower' = Append(follower,
                                  ExecutorRow(call.order, "EXECUTED", FALSE))
            /\ positions' = TradeExecutor_update_position(positions, call.order,
                                                          call.order.max_price)
            /\ events' = events (+)
                         SetToBag({Event("TRADE_EXECUTED", call.order.ref)})
       ELSE /\ follower' = Append(follower,
                                  ExecutorRow(call.order, "FAILED", FALSE))
            /\ events' = events (+)
                         SetToBag({Event("TRADE_FAILED", call.order.ref)})
            /\ UNCHANGED positions
    /\ executor' = [executor EXCEPT !.st = << >>]
    /\ UNCHANGED << execs, settings_rows >>
    /\ UNCHANGED execVars

Calls == [order : MirrorOrders, res : {"waiting", "filled", "failed"}]

AppNext ==
    \/ \E l \in LoopIds : AppStartMonitoring(l)
    \/ AppStopMonitoring
    \/ \E l \in LoopIds : AppCycleStart(l)
    \/ \E l \in LoopIds : AppLoopExit(l)
    \/ \E l \in LoopIds, b \in Batches : AppFetchReturn(l, b)
    \/ \E user \in BOOLEAN : ApiStartBot(user)
    \/ \E user \in BOOLEAN : ApiStopBot(user)
    \/ \E user \in BOOLEAN : ApiPauseBot(user)
    \/ \E data \in SettingsData, user \in BOOLEAN :
          ApiUpdateSettings(data, user)
    \/ \E user \in BOOLEAN : ApiDashboard(user)
    \/ TradeExecutor_init
    \/ \E order \in MirrorOrders : execute_order(order)
    \/ \E call \in Calls, ok \in BOOLEAN : PlaceOrderAnswer(call, ok)
    \/ \E call \in Calls : ExecuteLiveResume(call)

Next == MainNext \/ AppNext

Spec == Init /\ [][Next]_vars

-----------------------------------------------------------------------------
(* The same programs when a collaborator fails: the trade feed raises, a    *)
(* commit of the ledger raises                                              *)

\* _get_mock_trades: the fallback list of a wallet, the same at every call
\* (three trades whose ids are built from the wallet address; the model
\* keeps the first)
MockTrades(w) == << ((w - 1) % NumExt) + 1 >>

\* failures of the monitor in one run
MaxFaults == 1
FaultsLeft == hist.faults < MaxFaults

\* get_wallet_trades (main.py): the request raises, the except clause
\* returns the fallback list and check_wallet_trades processes it
FetchFails(l) ==
    LET w == loops[l].w
    IN
    /\ impl = "main"
    /\ loops[l].pc = "fetch"
    /\ FaultsLeft
    /\ loops' = [loops EXCEPT ![l] =
          [IdleLoop EXCEPT !.pc = "trade", !.w = w, !.batch = MockTrades(w)]]
    /\ hist' = [hist EXCEPT !.failed = @ \cup {w}, !.faults = @ + 1]
    /\ UNCHANGED << impl, settings, account, is_running, last_monitored, leader,
                    follower, events, switch, placed, seen, cycles, ops,
                    appVars, reply, settings_rows >>

\* process_trade (main.py): the broadcast returned and db.commit() raises;
\* except: db.rollback().  The LeaderTrade, the FollowerTrade and the
\* SystemEvent of the trade are gone; check_wallet_trades goes on.
CommitFails(l) ==
    LET lp == loops[l]
    IN
    /\ impl = "main"
    /\ lp.pc = "emit"
    /\ FaultsLeft
    /\ loops' = [loops EXCEPT ![l] = AfterTrade(lp)]
    /\ last_monitored' = Stamped(lp)
    /\ hist' = [hist EXCEPT !.lost = @ \cup {lp.w}, !.faults = @ + 1]
    /\ UNCHANGED << impl, settings, account, is_running, leader, follower,
                    events, switch, placed, seen, cycles, ops, appVars,
                    reply, settings_rows >>

\* get_trades_for_wallet (src/app): the except clause returns [];
\* _check_wallet_trades stamps the wallet and commits
AppFetchFails(l) ==
    LET w == loops[l].w
    IN
    /\ impl = "monitor"
    /\ loops[l].pc = "fetch"
    /\ FaultsLeft
    /\ last_monitored' = [last_monitored EXCEPT ![w] = TRUE]
    /\ loops' = [loops EXCEPT ![l] =
          IF w < NumWallets
          THEN [IdleLoop EXCEPT !.pc = "fetch", !.w = w + 1]
          ELSE [IdleLoop EXCEPT !.pc = "top"]]
    /\ hist' = [hist EXCEPT !.failed = @ \cup {w}, !.faults = @ + 1]
    /\ UNCHANGED << impl, settings, account, is_running, leader, events, seen,
                    cycles, ops, coreVars, reply, settings_rows >>

\* _execute_live_trade (src/app): the venue filled the order and the
\* db.commit() of the FollowerTrade raises; except: db.rollback(), return
\* False
LiveCommitFails(call) ==
    /\ impl = "executor"
    /\ call.res = "filled"
    /\ BagIn(call, inflight)
    /\ inflight' = inflight (-) SetToBag({call})
    /\ executor' = [executor EXCEPT !.st = << >>]
    /\ UNCHANGED << follower, positions, events, execs, settings_rows >>
    /\ UNCHANGED execVars

FaultNext ==
    \/ \E l \in LoopIds : FetchFails(l)
    \/ \E l \in LoopIds : CommitFails(l)
    \/ \E l \in LoopIds : AppFetchFails(l)
    \/ \E call \in Calls : LiveCommitFails(call)

\* the settings requests that leave the status to start and stop
ModeData == { data \in SettingsData : data.status = "keep" }

\* the monitor, the controls that start and stop it or change its settings,
\* and the executor, with the failures
NextFaults ==
    \/ \E l \in LoopIds : LoopBegin(l)
    \/ \E l \in LoopIds : CycleStart(l)
    \/ \E l \in LoopIds : LoopExit(l)
    \/ \E l \in LoopIds, b \in Batches : FetchReturn(l, b)
    \/ \E l \in LoopIds : ProcessTrade(l)
    \/ \E l \in LoopIds, info \in MarketInfos : MarketInfoReturn(l, info)
    \/ \E l \in LoopIds, ok \in BOOLEAN : PortReturn(l, ok)
    \/ \E l \in LoopIds : EmitReturn(l)
    \/ \E l \in LoopIds : start_bot(l)
    \/ stop_bot
    \/ \E data \in ModeData : update_settings(data)
    \/ \E l \in LoopIds : AppStartMonitoring(l)
    \/ AppStopMonitoring
    \/ \E l \in LoopIds : AppCycleStart(l)
    \/ \E l \in LoopIds : AppLoopExit(l)
    \/ \E l \in LoopIds, b \in Batches : AppFetchReturn(l, b)
    \/ ApiStartBot(TRUE)
    \/ \E data \in ModeData : ApiUpdateSettings(data, TRUE)
    \/ TradeExecutor_init
    \/ \E order \in MirrorOrders : execute_order(order)
    \/ \E call \in Calls, ok \in BOOLEAN : PlaceOrderAnswer(call, ok)
    \/ \E call \in Calls : ExecuteLiveResume(call)
    \/ FaultNext

SpecFaults == Init /\ [][NextFaults]_vars

-----------------------------------------------------------------------------
(* The monitor loops alone, with cycles that raise: start_monitoring of     *)
(* main.py and of app/wallet_monitor.py under start and stop                *)

InitLoop == Init /\ impl \in {"main", "monitor"}

\* an exception that ends the task
LoopEnded(lp) == IdleLoop

\* except Exception as e: the error is printed or logged, the task sleeps
\* ten seconds and is back at the while test
AfterFailure(lp) == [IdleLoop EXCEPT !.pc = "top"]

\* monitor_cycle / _monitor_cycle raises before the first wallet (the
\* query of the active wallets); the except clause of start_monitoring
\* takes it
CycleFails(l) ==
    /\ impl \in {"main", "monitor"}
    /\ loops[l].pc = "top"
    /\ is_running
    /\ cycles < MaxCycles
    /\ cycles' = cycles + 1
    /\ loops' = [loops EXCEPT ![l] = [IdleLoop EXCEPT !.pc = "failed"]]
    /\ hist' = [hist EXCEPT !.status = settings.status, !.failed = {},
                            !.lost = {}, !.faults = @ + 1]
    /\ UNCHANGED << impl, settings, account, is_running, last_monitored, leader,
                    follower, events, switch, placed, seen, ops, appVars,
                    reply, settings_rows >>

\* await asyncio.sleep(10) returns
SleepEnds(l) ==
    /\ impl \in {"main", "monitor"}
    /\ loops[l].pc = "failed"
    /\ loops' = [loops EXCEPT ![l] = AfterFailure(loops[l])]
    /\ UNCHANGED << impl, settings, account, is_running, last_monitored, leader,
                    follower, events, switch, placed, seen, cycles, ops,
                    appVars, webVars >>

NextLoop ==
    \/ \E l \in LoopIds : LoopBegin(l)
    \/ \E l \in LoopIds : CycleStart(l)
    \/ \E l \in LoopIds : LoopExit(l)
    \/ \E l \in LoopIds, b \in Batches : FetchReturn(l, b)
    \/ \E l \in LoopIds : ProcessTrade(l)
    \/ \E l \in LoopIds, info \in MarketInfos : MarketInfoReturn(l, info)
    \/ \E l \in LoopIds : EmitReturn(l)
    \/ \E l \in LoopIds : start_bot(l)
    \/ stop_bot
    \/ \E l \in LoopIds : AppStartMonitoring(l)
    \/ AppStopMonitoring
    \/ \E l \in LoopIds : AppCycleStart(l)
    \/ \E l \in LoopIds : AppLoopExit(l)
    \/ \E l \in LoopIds, b \in Batches : AppFetchReturn(l, b)
    \/ \E l \in LoopIds : CycleFails(l)
    \/ \E l \in LoopIds : SleepEnds(l)

\* the event loop runs a task that can go on: a sleep returns, the while
\* test is taken, an awaited answer arrives
LoopFairness ==
    \A l \in LoopIds :
        /\ WF_vars(SleepEnds(l))
        /\ WF_vars(CycleStart(l) \/ AppCycleStart(l) \/ CycleFails(l))

SpecLoop == InitLoop /\ [][NextLoop]_vars /\ LoopFairness

-----------------------------------------------------------------------------
(* The monitor tasks of main.py on one event loop: every create_task of     *)
(* start_monitoring is a task of its own, and nothing cancels one           *)

\* the tasks the event loop can hold at once
MonitorTasks == 1..NumTasks

\* startup_event: a persisted status RUNNING creates the monitor task
startup_event(st) ==
    [l \in MonitorTasks |->
        IF l = 1 /\ st.status = "RUNNING"
        THEN [IdleLoop EXCEPT !.pc = "new"]
        ELSE IdleLoop]

\* the settings row the application finds when it starts
PersistedSettings ==
    {[DefaultSettings EXCEPT !.status = s] : s \in {"STOPPED", "RUNNING"}}

InitTasks ==
    /\ impl = "main"
    /\ settings \in PersistedSettings
    /\ account = FALSE
    /\ is_running = FALSE
    /\ loops = startup_event(settings)
    /\ last_monitored = [w \in WalletIds |-> FALSE]
    /\ leader = << >>
    /\ follower = << >>
    /\ events = SetToBag({Event("SYSTEM_START", 0)})
    /\ positions = {}
    /\ inflight = EmptyBag
    /\ switch = IdleSwitch
    /\ placed = [x \in ExtIds |-> 0]
    /\ seen = [x \in ExtIds |-> 0]
    /\ cycles = 0
    /\ ops = 0
    /\ execs = 0
    /\ calc = NoCalc
    /\ reply = NoReply
    /\ settings_rows = 1
    /\ executor = NoExecutor
    /\ app_config = DefaultConfig
    /\ hist = NoHist

NextTasks ==
    \/ \E l \in MonitorTasks : LoopBegin(l)
    \/ \E l \in MonitorTasks : CycleStart(l)
    \/ \E l \in MonitorTasks : LoopExit(l)
    \/ \E l \in MonitorTasks, b \in Batches : FetchReturn(l, b)
    \/ \E l \in MonitorTasks : ProcessTrade(l)
    \/ \E l \in MonitorTasks, info \in MarketInfos : MarketInfoReturn(l, info)
    \/ \E l \in MonitorTasks : EmitReturn(l)
    \/ \E l \in MonitorTasks : start_bot(l)
    \/ stop_bot
    \/ pause_bot

SpecTasks == InitTasks /\ [][NextTasks]_vars

-----------------------------------------------------------------------------
(* The strategy's sizing and the risk managers' ceilings as functions:      *)
(* the inputs are drawn at the start and each function is applied once      *)

\* leader sizes: nothing, dust of 0.0002 and 0.0004 share, 100 and 1000
\* shares; prices 0, 0.50, 0.60; copy percentages and caps in dollars
SizeInputs == {0, 2, 4, 100 * TicksPerShare, 1000 * TicksPerShare}
PriceInputs == {0, 500, 600}
PctInputs == {20, 50, 100}
CapInputs == {50, 100}

InitSizing ==
    /\ impl = "sizing"
    /\ settings = DefaultSettings
    /\ account = FALSE
    /\ is_running = FALSE
    /\ loops = [l \in LoopIds |-> IdleLoop]
    /\ last_monitored = [w \in WalletIds |-> FALSE]
    /\ leader = << >>
    /\ follower = << >>
    /\ events = EmptyBag
    /\ positions = {}
    /\ inflight = EmptyBag
    /\ switch = IdleSwitch
    /\ placed = [x \in ExtIds |-> 0]
    /\ seen = [x \in ExtIds |-> 0]
    /\ cycles = 0
    /\ ops = 0
    /\ execs = 0
    /\ reply = NoReply
    /\ settings_rows = 1
    /\ executor = NoExecutor
    /\ app_config = DefaultConfig
    /\ hist = NoHist
    /\ calc \in [size : SizeInputs, price : PriceInputs, pct : PctInputs,
                 cap : CapInputs, mode : Modes, sized : {{}},
                 app : {<< >>}, main : {<< >>},
                 can_open : {"unset"}, can_execute : {"unset"},
                 info : MarketInfos, order_app : {<< >>},
                 order_main : {<< >>}, passes : {"unset"}]

nonCalc == << impl, settings, account, is_running, loops, last_monitored,
              leader, follower, events, positions, inflight, switch, placed,
              seen, cycles, ops, execs, reply, settings_rows, executor,
              app_config, hist >>

Verdict(allow) == IF allow THEN "allow" ELSE "deny"

\* app/strategy.py: the mirror order for a leader trade
SizeApp ==
    /\ impl = "sizing"
    /\ "app" \notin calc.sized
    /\ calc' = [calc EXCEPT
          !.sized = @ \cup {"app"},
          !.app = CopyStrategy_mirror_order(calc.size, calc.price,
                                            calc.pct, calc.cap)]
    /\ UNCHANGED nonCalc

\* main.py: the mirror trade for a leader trade
SizeMain ==
    /\ impl = "sizing"
    /\ "main" \notin calc.sized
    /\ calc' = [calc EXCEPT
          !.sized = @ \cup {"main"},
          !.main = CopyTradingStrategy_order(calc.size, calc.price,
                                             calc.pct, calc.cap)]
    /\ UNCHANGED nonCalc

\* app/risk.py on the order (size, max_price) = (calc.size, calc.price)
RiskApp ==
    /\ impl = "sizing"
    /\ calc.can_open = "unset"
    /\ calc' = [calc EXCEPT !.can_open = Verdict(
          RiskManager_can_open_trade(
              [size |-> calc.size, max_price |-> calc.price],
              [DefaultLimits EXCEPT !.max_trade_amount = calc.cap],
              EmptySnapshot))]
    /\ UNCHANGED nonCalc

\* main.py risk on the order (amount, price) = (calc.size, calc.price)
RiskMain ==
    /\ impl = "sizing"
    /\ calc.can_execute = "unset"
    /\ calc' = [calc EXCEPT !.can_execute = Verdict(
          RiskManager_can_execute_trade(
              [amount |-> calc.size, price |-> calc.price],
              [mode |-> calc.mode, status |-> "RUNNING", dry |-> TRUE], 0))]
    /\ UNCHANGED nonCalc

\* app/strategy.py: process_leader_trade on the market's metadata calc.info
FilterApp ==
    /\ impl = "sizing"
    /\ "filter_app" \notin calc.sized
    /\ calc' = [calc EXCEPT
          !.sized = @ \cup {"filter_app"},
          !.order_app = CopyStrategy_process_leader_trade(
              [amount |-> calc.size, price |-> calc.price], calc.info,
              calc.pct, calc.cap)]
    /\ UNCHANGED nonCalc

\* main.py: process_leader_trade on the same metadata, under the configured
\* settings
FilterMain ==
    /\ impl = "sizing"
    /\ "filter_main" \notin calc.sized
    /\ calc' = [calc EXCEPT
          !.sized = @ \cup {"filter_main"},
          !.order_main = CopyTradingStrategy_process_leader_trade(
              [amount |-> calc.size, price |-> calc.price], calc.info)]
    /\ UNCHANGED nonCalc

\* app/risk.py on the mirror order app/strategy.py produced, under the
\* same settings
RiskOnMirrorOrder ==
    /\ impl = "sizing"
    /\ calc.app # << >>
    /\ calc.passes = "unset"
    /\ calc' = [calc EXCEPT !.passes = Verdict(
          RiskManager_can_open_trade(
              calc.app[1],
              [DefaultLimits EXCEPT !.max_trade_amount = calc.cap],
              EmptySnapshot))]
    /\ UNCHANGED nonCalc

NextSizing ==
    \/ SizeApp
    \/ SizeMain
    \/ RiskApp
    \/ RiskMain
    \/ FilterApp
    \/ FilterMain
    \/ RiskOnMirrorOrder

SpecSizing == InitSizing /\ [][NextSizing]_vars

-----------------------------------------------------------------------------
(* The risk rules over a ledger.  app/background.py starts execute_trades  *)
(* of app/executor.py, which the package does not define: the hand-over    *)
(* from the risk manager to the executor follows the specification, one    *)
(* order at a time under settings that stay as they are.                   *)

\* the Settings the operator configured
LimitInputs ==
    [max_trade_amount : {9, 100}, max_open_markets : {1, 2},
     max_exposure_per_market : {9, 10}, daily_loss_limit : {2, 200},
     max_trades_per_hour : {2, 10}]

\* 15 shares bought at 0.60 or given up at 0.40, on three markets
RiskOrders ==
    { o \in [ref : {1}, market : {1, 2, 3}, outcome : {"0"},
             side : {"YES", "NO"}, size : {15 * TicksPerShare},
             max_price : {400, 600}] :
        o.max_price = (IF o.side = "YES" THEN 600 ELSE 400) }

MaxSlots == 3
MaxTrades == 3

NoSnapshot == [open_markets |-> 0, exposure |-> 0, daily_pnl |-> 0,
               recent |-> 0]

InitRisk ==
    /\ impl = "risk"
    /\ settings = DefaultSettings
    /\ account = FALSE
    /\ is_running = FALSE
    /\ loops = [l \in LoopIds |-> IdleLoop]
    /\ last_monitored = [w \in WalletIds |-> FALSE]
    /\ leader = << >>
    /\ follower = << >>
    /\ events = EmptyBag
    /\ positions = {}
    /\ inflight = EmptyBag
    /\ switch = IdleSwitch
    /\ placed = [x \in ExtIds |-> 0]
    /\ seen = [x \in ExtIds |-> 0]
    /\ cycles = 0
    /\ ops = 0
    /\ execs = 0
    /\ reply = NoReply
    /\ settings_rows = 1
    /\ executor = NoExecutor
    /\ app_config = DefaultConfig
    /\ hist = NoHist
    /\ calc \in [limits : LimitInputs, now : {0}, book : {<< >>},
                 order : {<< >>}, snap : {NoSnapshot}, realised : {0},
                 can_open : {"unset"}, can_execute : {"unset"},
                 reason : {""}]

riskFixed == << impl, settings, account, is_running, loops, last_monitored,
               leader, events, inflight, switch, placed, seen, cycles, ops,
               execs, reply, settings_rows, executor, app_config, hist >>

\* half an hour passes
Clock ==
    /\ impl = "risk"
    /\ calc.now < MaxSlots
    /\ calc' = [calc EXCEPT !.now = @ + 1]
    /\ UNCHANGED << follower, positions >>
    /\ UNCHANGED riskFixed

\* the next order reaches the risk managers: can_open_trade of app/risk.py
\* on the ledger as it is, and can_execute_trade of main.py on the same
\* order and the same count of the hour
Authorize(order) ==
    LET snap == Snapshot(positions, calc.book, calc.now, order.market)
    IN
    /\ impl = "risk"
    /\ calc.order = << >>
    /\ calc' = [calc EXCEPT
          !.order = << order >>,
          !.snap = snap,
          !.can_open = Verdict(
              RiskManager_can_open_trade(order, calc.limits, snap)),
          !.reason = RiskManager_reason(order, calc.limits, snap),
          !.can_execute = Verdict(
              RiskManager_can_execute_trade(
                  [amount |-> order.size, price |-> order.max_price],
                  settings, snap.recent))]
    /\ UNCHANGED << follower, positions >>
    /\ UNCHANGED riskFixed

\* what a reduction of a position gives or gives up against its average
\* price, in tick-mills (nothing for a purchase)
RealisedBy(rows, order) ==
    LET found == PositionsOf(rows, order.market, order.outcome)
    IN  IF order.side = "YES" \/ found = {} THEN 0
        ELSE LET position == CHOOSE r \in found : TRUE
                 sold == IF order.size < position.size THEN order.size
                         ELSE position.size
                 diff == order.max_price * position.den - position.num
             IN  IF diff >= 0 THEN (sold * diff) \div position.den
                 ELSE -((sold * (-diff)) \div position.den)

\* a rejected order is dropped
Reject ==
    /\ impl = "risk"
    /\ calc.order # << >>
    /\ calc.can_open = "deny"
    /\ calc' = [calc EXCEPT !.order = << >>]
    /\ UNCHANGED << follower, positions >>
    /\ UNCHANGED riskFixed

\* an authorized order is handed to the executor, which simulates it
\* (_execute_dry_run): the FollowerTrade and the position update
HandOff ==
    /\ impl = "risk"
    /\ calc.order # << >>
    /\ calc.can_open = "allow"
    /\ Len(follower) < MaxTrades
    /\ LET order == calc.order[1]
       IN  /\ follower' = Append(follower,
                                 ExecutorRow(order, "SIMULATED", TRUE))
           /\ positions' = TradeExecutor_update_position(positions, order,
                                                         order.max_price)
           /\ calc' = [calc EXCEPT
                 !.order = << >>,
                 !.book = Append(@, Booked(calc.now)),
                 !.realised = @ + RealisedBy(positions, order)]
    /\ UNCHANGED riskFixed

NextRisk ==
    \/ Clock
    \/ \E order \in RiskOrders : Authorize(order)
    \/ Reject
    \/ HandOff

SpecRisk == InitRisk /\ [][NextRisk]_vars

-----------------------------------------------------------------------------
(* Two pipeline tasks on one ledger: each authorizes its order, awaits the *)
(* venue (client.place_order) and records the trade when it resumes.       *)

TaskIds == 1..NumTasks

IdleTask == [pc |-> "idle", order |-> << >>]

\* the Settings at their defaults but for the trades of an hour
RaceLimits ==
    { [DefaultLimits EXCEPT !.max_trades_per_hour = n] : n \in {1, 2} }

\* RiskManager.on_trade_executed: "pass"; nothing calls it, and the executor
\* counts nothing after its commit.  What was detected stays as it was.
RiskManager_on_trade_executed(detected) == detected

InitRace ==
    /\ impl = "race"
    /\ settings = DefaultSettings
    /\ account = FALSE
    /\ is_running = FALSE
    /\ loops = [l \in LoopIds |-> IdleLoop]
    /\ last_monitored = [w \in WalletIds |-> FALSE]
    /\ leader = << >>
    /\ follower = << >>
    /\ events = EmptyBag
    /\ positions = {}
    /\ inflight = EmptyBag
    /\ switch = IdleSwitch
    /\ placed = [x \in ExtIds |-> 0]
    /\ seen = [x \in ExtIds |-> 0]
    /\ cycles = 0
    /\ ops = 0
    /\ execs = 0
    /\ reply = NoReply
    /\ settings_rows = 1
    /\ executor = NoExecutor
    /\ app_config = DefaultConfig
    /\ hist = NoHist
    /\ calc \in [limits : RaceLimits, now : {0}, book : {<< >>},
                 tasks : {[t \in TaskIds |-> IdleTask]},
                 detected : {FALSE}, overlap : {FALSE}]

\* a task takes an order: can_open_trade on the ledger as it is; an
\* authorized order goes to the venue, a rejected one is dropped
TaskAuthorize(t, order) ==
    LET snap == Snapshot(positions, calc.book, calc.now, order.market)
    IN
    /\ impl = "race"
    /\ calc.tasks[t].pc = "idle"
    /\ calc' = [calc EXCEPT !.tasks[t] =
          IF RiskManager_can_open_trade(order, calc.limits, snap)
          THEN [pc |-> "placed", order |-> << order >>]
          ELSE IdleTask]
    /\ UNCHANGED << follower, positions >>
    /\ UNCHANGED riskFixed

\* the venue answered and _execute_live_trade resumes: the FollowerTrade
\* is committed, the position updated after a fill (overlap remembers that
\* a fill settled while another task's order was with the venue)
TaskSettle(t, ok) ==
    /\ impl = "race"
    /\ calc.tasks[t].pc = "placed"
    /\ Len(follower) < MaxTrades
    /\ LET order == calc.tasks[t].order[1]
       IN  /\ follower' = Append(follower,
                  ExecutorRow(order, IF ok THEN "EXECUTED" ELSE "FAILED",
                              FALSE))
           /\ positions' = IF ok
                            THEN TradeExecutor_update_position(
                                     positions, order, order.max_price)
                            ELSE positions
           /\ calc' = [calc EXCEPT
                 !.tasks[t] = IdleTask,
                 !.book = Append(@, Booked(calc.now)),
                 !.detected = RiskManager_on_trade_executed(@),
                 !.overlap = @ \/ (ok /\ \E u \in TaskIds \ {t} :
                                           calc.tasks[u].pc = "placed")]
    /\ UNCHANGED riskFixed

NextRace ==
    \/ \E t \in TaskIds, order \in RiskOrders : TaskAuthorize(t, order)
    \/ \E t \in TaskIds, ok \in BOOLEAN : TaskSettle(t, ok)

SpecRace == InitRace /\ [][NextRace]_vars

-----------------------------------------------------------------------------
(* Properties *)

\* the LeaderTrade rows that hold the external id x
LeaderRows(x) == { i \in 1..Len(leader) : leader[i].ext = x }

\* C1 - Idempotent ingestion: whatever the feeds return over the monitor
\* cycles (an id repeated within a list, across cycles or across wallets), no
\* external_trade_id has two LeaderTrade rows, and every id whose handling
\* completed since the tables were last emptied has exactly one row.
C1_IdempotentIngestion ==
    impl \in {"main", "monitor"} =>
        \A x \in ExtIds :
            /\ Cardinality(LeaderRows(x)) <= 1
            /\ seen[x] > 0 => Cardinality(LeaderRows(x)) = 1

\* an id was handled twice and has its one row
C1_Witness ==
    \E x \in ExtIds : seen[x] = 2 /\ Cardinality(LeaderRows(x)) = 1

\* C2 - At-most-once mirrored execution: for every external leader trade,
\* over the monitor cycles and the operator commands (start, stop, pause,
\* switch mode, reset analytics), place_order is invoked at most once.
C2_AtMostOnceExecution ==
    \A x \in ExtIds : placed[x] <= 1

\* C3 - Risk rejection: an order whose notional size * price exceeds the
\* configured max_trade_amount is never authorized by a risk manager, in TEST
\* and in LIVE mode alike.
C3_RiskRejection ==
    OverDollars(calc.size, calc.price, calc.cap) =>
        /\ calc.can_open # "allow"
        /\ calc.can_execute # "allow"

\* min(size * pct/100 * price, cap) / price rounded to 4 decimals, for
\* price > 0: rounding is monotone, so it is the smaller of the two rounded
\* sizes
ExpectedSize(size, price, pct, cap) ==
    Min(Round4(size * pct, 100), Round4(cap * UnitsPerDollar, price))

\* the size of the order a strategy returned (0 when it returned none)
ReturnedSize(prog) ==
    IF prog = "app"
    THEN IF calc.app = << >> THEN 0 ELSE calc.app[1].size
    ELSE IF calc.main = << >> THEN 0 ELSE calc.main[1].amount
Returned(prog) == IF prog = "app" THEN calc.app # << >> ELSE calc.main # << >>

\* C4 - Sizing and cap: for price > 0 the mirror size is
\* min(size * pct/100 * price, cap) / price rounded to 4 decimals; a price
\* <= 0 or a resulting size <= 0 yields no order; (100, 0.5, 20%, 100) gives
\* 20.0 shares and (1000, 0.5, 50%, 100) gives 200.0 shares.
C4_SizingAndCap ==
    \A prog \in calc.sized :
        /\ calc.price <= 0 => ~Returned(prog)
        /\ calc.price > 0 =>
              LET e == ExpectedSize(calc.size, calc.price, calc.pct, calc.cap)
              IN  /\ e <= 0 => ~Returned(prog)
                  /\ e > 0 => Returned(prog) /\ ReturnedSize(prog) = e
        /\ ( /\ calc.size = 100 * TicksPerShare /\ calc.price = 500
             /\ calc.pct = 20 /\ calc.cap = 100 )
              => ReturnedSize(prog) = 20 * TicksPerShare
        /\ ( /\ calc.size = 1000 * TicksPerShare /\ calc.price = 500
             /\ calc.pct = 50 /\ calc.cap = 100 )
              => ReturnedSize(prog) = 200 * TicksPerShare

\* this step appended one FollowerTrade
Recorded == Len(follower') = Len(follower) + 1
NewRow == follower'[Len(follower')]
Filled(row) == row.status \in {"SIMULATED", "EXECUTED"}

\* r holds the average (S * A + s * p) / (S + s) of position o = (S, A)
\* merged with s at p (cross-multiplied, sizes in their common unit)
SameAverage(r, o, s, p) ==
    LET u == GCD(o.size, s)
    IN  r.num * o.den * ((o.size + s) \div u)
          = r.den * ((o.size \div u) * o.num + (s \div u) * p * o.den)

\* C5 - Position merge: executing a SIMULATED or EXECUTED YES order of size
\* s at execution price p on a Position (S, A) yields
\* (S + s, (S * A + s * p) / (S + s)); on a pair without Position it
\* creates (s, p).
C5_PositionMerge ==
    [][ (impl = "executor" /\ Recorded /\ NewRow.side = "YES"
         /\ Filled(NewRow)) =>
          LET old == PositionsOf(positions, NewRow.market, NewRow.outcome)
              new == PositionsOf(positions', NewRow.market, NewRow.outcome)
          IN  /\ Cardinality(new) = 1
              /\ \A r \in new :
                    IF old = {}
                    THEN r.size = NewRow.size /\ r.num = NewRow.price * r.den
                    ELSE \A o \in old :
                            /\ r.size = o.size + NewRow.size
                            /\ SameAverage(r, o, NewRow.size, NewRow.price)
      ]_vars

\* (10, 0.4) plus YES (10 @ 0.6) gave (20, 0.5)
C5_Witness ==
    /\ impl = "executor"
    /\ Len(follower) = 2
    /\ \A i \in 1..2 : follower[i].side = "YES" /\ Filled(follower[i])
                       /\ follower[i].size = 10 * TicksPerShare
    /\ follower[1].price = 400
    /\ follower[2].price = 600
    /\ \E r \in positions : r.size = 20 * TicksPerShare /\ r.num = 500 * r.den

\* C6 - Position closure: a NO order whose size is at least the existing
\* position size removes the Position row, and no Position row ever has a
\* size <= 0.
C6_PositionClosure ==
    [][ /\ \A r \in positions' : r.size > 0
        /\ (impl = "executor" /\ Recorded /\ NewRow.side = "NO"
            /\ Filled(NewRow)) =>
              LET old == PositionsOf(positions, NewRow.market, NewRow.outcome)
                  new == PositionsOf(positions', NewRow.market, NewRow.outcome)
              IN  (old # {} /\ \A o \in old : NewRow.size >= o.size)
                      => new = {}
      ]_vars

\* a position of 10 shares was closed by a NO order of 15
C6_Witness ==
    /\ impl = "executor"
    /\ Len(follower) = 2
    /\ follower[1].side = "YES" /\ Filled(follower[1])
    /\ follower[1].size = 10 * TicksPerShare
    /\ follower[2].side = "NO" /\ Filled(follower[2])
    /\ follower[2].size = 15 * TicksPerShare
    /\ positions = {}

\* C7 - Mode-switch safety: a switch requested while the status is RUNNING
\* stops the monitor and sets the status to STOPPED no later than it changes
\* the mode, and no order is placed and no FollowerTrade is recorded before
\* the switch has completed.  The second part is checked on the end of the
\* window: from the handler's change of the mode to its answer.
C7_ModeSwitchSafety ==
    [][ /\ (switch.pc = "body" /\ settings.status = "RUNNING"
            /\ settings'.mode # settings.mode) =>
              (settings'.status = "STOPPED" /\ ~is_running')
        /\ (switch.pc = "emit" /\ switch.running) =>
              (placed' = placed /\ Len(follower') <= Len(follower))
      ]_vars

\* this step added exactly one event, of the given type and reference
OneEventAdded(type, ref) ==
    /\ BagCardinality(events') = BagCardinality(events) + 1
    /\ CopiesIn(Event(type, ref), events')
          = CopiesIn(Event(type, ref), events) + 1

\* this step recorded the failed attempt on the leader trade ref
FailureRecorded(ref) ==
    /\ Recorded
    /\ NewRow.status = "FAILED"
    /\ NewRow.ref = ref
    /\ OneEventAdded("TRADE_FAILED", ref)

\* C8 - Failed execution auditability: with dry-run disabled in LIVE mode,
\* when the order placement failed, the attempt is recorded as exactly one
\* FollowerTrade with status FAILED and exactly one TRADE_FAILED event.
C8_FailedExecutionAudit ==
    [][ /\ \A l \in LoopIds :
              (impl = "main" /\ loops[l].pc = "emit"
               /\ loops[l].res \in {"failed", "refused"}
               /\ loops'[l].pc # "emit")
                  => FailureRecorded(Head(loops[l].batch))
        /\ \A call \in BagToSet(inflight) :
              (impl = "executor" /\ call.res = "failed"
               /\ CopiesIn(call, inflight') < CopiesIn(call, inflight))
                  => FailureRecorded(call.order.ref)
      ]_vars

\* the real-trade call of a configured account failed and was recorded
C8_Witness ==
    /\ impl = "main"
    /\ account
    /\ \E i \in 1..Len(follower) :
          /\ follower[i].status = "FAILED"
          /\ CopiesIn(Event("TRADE_FAILED", follower[i].ref), events) = 1

Pairs == { << order.market, order.outcome >> : order \in MirrorOrders }

\* sum of the YES sizes minus sum of the NO sizes of the SIMULATED and
\* EXECUTED trades of a pair
RECURSIVE NetSize(_, _, _)
NetSize(trades, m, o) ==
    IF trades = << >> THEN 0
    ELSE LET t    == trades[Len(trades)]
             rest == NetSize(SubSeq(trades, 1, Len(trades) - 1), m, o)
         IN  IF t.market # m \/ t.outcome # o \/ ~Filled(t) THEN rest
             ELSE IF t.side = "YES" THEN rest + t.size ELSE rest - t.size

\* the same running total when a NO trade can only close what is open: a
\* NO trade of at least the open size leaves zero
RECURSIVE OpenSize(_, _, _)
OpenSize(trades, m, o) ==
    IF trades = << >> THEN 0
    ELSE LET t    == trades[Len(trades)]
             rest == OpenSize(SubSeq(trades, 1, Len(trades) - 1), m, o)
         IN  IF t.market # m \/ t.outcome # o \/ ~Filled(t) THEN rest
             ELSE IF t.side = "YES" THEN rest + t.size
             ELSE IF t.size >= rest THEN 0 ELSE rest - t.size

\* C9 as stated - Consistent position accounting: for every pair the
\* Position size equals the net of its SIMULATED/EXECUTED FollowerTrades
\* (YES sizes minus NO sizes), the row being absent exactly when the net is
\* <= 0; FAILED trades contribute nothing.
C9_NetAccounting ==
    impl = "executor" =>
        \A pair \in Pairs :
            LET net  == NetSize(follower, pair[1], pair[2])
                rows == PositionsOf(positions, pair[1], pair[2])
            IN  IF net <= 0 THEN rows = {}
                ELSE Cardinality(rows) = 1 /\ \A r \in rows : r.size = net

\* C9 amended - for every pair the Position size equals the running total
\* of its SIMULATED/EXECUTED FollowerTrades in which a YES trade adds its
\* size and a NO trade subtracts it but never below zero (a NO trade of at
\* least the open size closes the position, the excess is dropped); the row
\* is absent exactly when that total is zero; FAILED trades contribute
\* nothing.
C9_ClosingOnlyAccounting ==
    impl = "executor" =>
        \A pair \in Pairs :
            LET open == OpenSize(follower, pair[1], pair[2])
                rows == PositionsOf(positions, pair[1], pair[2])
            IN  IF open = 0 THEN rows = {}
                ELSE Cardinality(rows) = 1 /\ \A r \in rows : r.size = open

\* a position is open after a NO trade dropped an excess: the plain net
\* and the running total differ
C9_Witness ==
    /\ impl = "executor"
    /\ positions # {}
    /\ \E pair \in Pairs :
          OpenSize(follower, pair[1], pair[2])
              # NetSize(follower, pair[1], pair[2])
    /\ \E i \in 1..Len(follower) : follower[i].status = "FAILED"

\* C10 - The trading mode changes only while the status is STOPPED: in
\* every step that changes global_trading_mode the status is STOPPED when
\* the new mode takes effect.
C10_ModeChangeOnlyStopped ==
    [][ settings'.mode # settings.mode => settings'.status = "STOPPED" ]_vars

-----------------------------------------------------------------------------
(* Control surface, execution modes and audit trail *)

\* this step is the arrival of a request at the given route
RequestStep(route) ==
    ops' = ops + 1 /\ reply'.n = ops' /\ reply'.route = route

Rejections == {400, 401, 403, 500}

\* the status in which a start, stop or pause command is invalid
InvalidIn(route) ==
    IF route = "start" THEN "RUNNING"
    ELSE IF route = "stop" THEN "STOPPED" ELSE "PAUSED"

\* C11 - Invalid status transitions are rejected: start while RUNNING, stop
\* while STOPPED and pause while PAUSED each answer with an error, leave
\* global_trading_status and the monitor's running state unchanged, and
\* record no BOT_STARTED/BOT_STOPPED/BOT_PAUSED event.
C11_InvalidTransitionRejected ==
    [][ \A route \in {"start", "stop", "pause"} :
          (RequestStep(route) /\ settings.status = InvalidIn(route)) =>
              /\ reply'.code \in Rejections
              /\ settings'.status = settings.status
              /\ is_running' = is_running
              /\ loops' = loops
              /\ events' = events
      ]_vars

\* a second start was refused while the monitor of main.py was running
C11_Witness ==
    /\ impl = "main"
    /\ reply.route = "start"
    /\ reply.code = 500
    /\ settings.status = "RUNNING"
    /\ is_running

Fatal(st) == st.mode = "LIVE" /\ ~st.dry

\* the step hands a risk-approved order of the monitor task l to
\* execute_mirror_trade (main.py)
MirrorStep(l) ==
    impl = "main" /\ loops[l].pc = "minfo" /\ loops'[l].pc \in {"port", "emit"}

\* the step is a call of execute_order that passed the executor's status
\* gate (src/app)
ExecuteStep ==
    impl = "executor" /\ execs' = execs + 1 /\ SelfSettings.status = "RUNNING"

\* C12 - Simulated execution: whenever dry_run_enabled is true or the mode
\* is TEST, executing an approved order produces a FollowerTrade with status
\* SIMULATED at the order's price, never one with status EXECUTED.
C12_SimulatedExecution ==
    [][ /\ \A l \in LoopIds :
              (MirrorStep(l) /\ (settings.dry \/ settings.mode = "TEST")) =>
                  /\ loops'[l].ft # << >>
                  /\ loops'[l].ft[1].status = "SIMULATED"
                  /\ loops'[l].ft[1].price = loops'[l].order[1].price
        /\ (ExecuteStep /\ (settings.dry \/ settings.mode = "TEST")) =>
              (Recorded /\ NewRow.status = "SIMULATED")
      ]_vars

\* the step enters the order path of the trading venue: _execute_real_trade
\* (main.py), or place_order past its DRY_RUN_ENABLED test (src/app)
RealOrderStep ==
    \/ \E l \in LoopIds : MirrorStep(l) /\ loops'[l].pc = "port"
    \/ impl = "executor" /\ BagCardinality(inflight') > BagCardinality(inflight)

\* C13 - No real order outside LIVE: while the persisted Settings have
\* dry_run_enabled true or mode TEST, executing an order never reaches the
\* order path of the real trading venue.
C13_NoRealOrderOutsideLive ==
    [][ RealOrderStep => (~settings.dry /\ settings.mode = "LIVE") ]_vars

\* C14 - Fatal configuration: with mode LIVE and dry-run disabled in the
\* Settings and no trading credentials configured, the execution of an order
\* is refused and recorded as FAILED, never as SIMULATED or EXECUTED: the
\* monitor of main.py prepares a FAILED row, and a row the executor records
\* in its call is FAILED.
C14_FatalConfiguration ==
    [][ /\ \A l \in LoopIds :
              (MirrorStep(l) /\ Fatal(settings) /\ ~account) =>
                  /\ loops'[l].ft # << >>
                  /\ loops'[l].ft[1].status = "FAILED"
        /\ (ExecuteStep /\ Fatal(settings) /\ ~account /\ Recorded) =>
              NewRow.status = "FAILED"
      ]_vars

\* C15 - Every risk-approved MirrorOrder handed to the executor results in
\* exactly one FollowerTrade row, never zero and never two, whatever the
\* status, mode or port outcome: the call records the row or leaves the
\* order with the port, and the port's answer is recorded as one row.
C15_ExactlyOneFollowerTrade ==
    [][ /\ Len(follower') <= Len(follower) + 1
        /\ (impl = "executor" /\ execs' = execs + 1) =>
              \/ Recorded /\ inflight' = inflight
              \/ /\ follower' = follower
                 /\ BagCardinality(inflight') = BagCardinality(inflight) + 1
        /\ (impl = "executor"
            /\ BagCardinality(inflight') < BagCardinality(inflight)) => Recorded
        /\ \A l \in LoopIds :
              (impl = "main" /\ loops[l].pc = "emit" /\ loops'[l].pc # "emit")
                  => Recorded
      ]_vars

\* the step is an access to the Settings row: a request served by a route,
\* the construction of an executor or a call of it
SettingsAccess ==
    \/ ops' = ops + 1 /\ reply'.n = ops' /\ (impl = "main" \/ reply'.user)
    \/ executor' # executor
    \/ execs' = execs + 1

\* C16 - Settings singleton: the table never holds two rows, a row is never
\* removed, and after any access (route, executor) it holds exactly one.
C16_SettingsSingleton ==
    [][ /\ settings_rows' <= 1
        /\ settings_rows' >= settings_rows
        /\ SettingsAccess => settings_rows' = 1
      ]_vars

\* the executor and a route of app/api.py both accessed the settings of a
\* fresh database
C16_Witness ==
    /\ impl = "executor"
    /\ executor.built
    /\ reply.user
    /\ reply.code = 200
    /\ settings_rows = 1

\* the step is an analytics reset that records an event of its own
LoggedReset ==
    \/ RequestStep("reset")
       /\ CopiesIn(Event("ANALYTICS_RESET", 0), events')
             > CopiesIn(Event("ANALYTICS_RESET", 0), events)
    \/ switch.pc = "body" /\ ResetRequested(switch.reset)
       /\ CopiesIn(ModeSwitched(TRUE), events')
             > CopiesIn(ModeSwitched(TRUE), events)

\* C17 - SystemEvent is append-only: no operator or pipeline operation
\* removes or changes an existing SystemEvent, except an explicit analytics
\* reset that itself records an event.
C17_EventsAppendOnly ==
    [][ (events \sqsubseteq events') \/ LoggedReset ]_vars

\* the step deletes trade history or clears a wallet's last_monitored
HistoryReset ==
    \/ leader # << >> /\ leader' = << >>
    \/ follower # << >> /\ follower' = << >>
    \/ \E w \in WalletIds : last_monitored[w] /\ ~last_monitored'[w]

\* C18 - Analytics reset on mode switch is opt-in and logged: a mode switch
\* deletes the LeaderTrade/FollowerTrade history and resets last_monitored
\* only when the request asks for it explicitly (a request that does not
\* mention the reset resets nothing), and the reset is recorded in a
\* SystemEvent.
C18_ResetOptIn ==
    [][ (switch.pc = "body" /\ switch'.pc # "body" /\ HistoryReset) =>
            /\ switch.reset = "yes"
            /\ CopiesIn(ModeSwitched(TRUE), events')
                  > CopiesIn(ModeSwitched(TRUE), events)
      ]_vars

\* C19 - Protected routes require authentication: a request without an
\* authenticated user to the dashboard or to an operator control endpoint
\* is not served; it is redirected to the login or rejected, and changes no
\* state.
C19_ProtectedRoutes ==
    [][ (ops' = ops + 1 /\ reply'.n = ops' /\ ~reply'.user) =>
            /\ reply'.code \in {303, 307} \cup Rejections
            /\ UNCHANGED << settings, settings_rows, is_running, loops,
                            last_monitored, leader, follower, events, switch >>
      ]_vars

\* C20 - Status gating at every stage: the trading port is never called
\* and no FollowerTrade is recorded while the persisted
\* global_trading_status is not RUNNING.
C20_StatusGating ==
    [][ ( \/ placed' # placed
          \/ BagCardinality(inflight') > BagCardinality(inflight)
          \/ Recorded ) => settings.status = "RUNNING"
      ]_vars

-----------------------------------------------------------------------------
(* Monitor cycles, failures and the risk limits *)

\* the step ends the attempt of the monitor task l (main.py): the task
\* leaves execute_mirror_trade and process_trade
AttemptEnds(l) ==
    impl = "main" /\ loops[l].pc = "emit" /\ loops'[l].pc # "emit"

\* the step ends the call of _execute_live_trade that holds the venue's
\* answer (src/app)
CallEnds(call) ==
    impl = "executor" /\ call.res # "waiting"
    /\ CopiesIn(call, inflight') < CopiesIn(call, inflight)

\* C21 - Monitor gating: a monitor cycle that starts while
\* global_trading_status is not RUNNING ingests nothing: every LeaderTrade is
\* created in a cycle that started while the status was RUNNING.
C21_MonitorGating ==
    [][ Len(leader') > Len(leader) => hist.status = "RUNNING" ]_vars

\* C22 - Half-executed trades are always recorded: every call of the
\* trading venue that returned success has a committed FollowerTrade with
\* status EXECUTED when its task has finished with it, also when a later
\* step of the same task fails (ledger commit error).
C22_HalfExecutedRecorded ==
    [][ /\ \A l \in LoopIds :
              (AttemptEnds(l) /\ loops[l].res = "filled") =>
                  /\ Recorded
                  /\ NewRow.status = "EXECUTED"
                  /\ NewRow.ref = Head(loops[l].batch)
        /\ \A call \in BagToSet(inflight) :
              (CallEnds(call) /\ call.res = "filled") =>
                  /\ Recorded
                  /\ NewRow.status = "EXECUTED"
                  /\ NewRow.ref = call.order.ref
      ]_vars

\* the monitor task l has handed the trade at the head of its batch to the
\* strategy, the risk manager or the execution (main.py)
HandedOff(lp) == lp.pc \in {"minfo", "port", "emit"}

\* C23 - Ingestion survives downstream failure: the LeaderTrade of a newly
\* seen trade is committed before the trade is handed to strategy, risk and
\* execution, and is still committed when the task has finished with the
\* trade, whatever failed downstream.
C23_IngestionSurvives ==
    [][ \A l \in LoopIds :
          /\ (impl = "main" /\ HandedOff(loops'[l])) =>
                HasExternalId(leader', Head(loops'[l].batch))
          /\ AttemptEnds(l) => HasExternalId(leader', Head(loops[l].batch))
      ]_vars

\* C24 - Fetch failure means no new trades: when the fetch of a wallet's
\* trades failed in a cycle, no LeaderTrade and no FollowerTrade is created
\* for that wallet in that cycle.
C24_FetchFailureNoTrades ==
    [][ /\ Len(leader') > Len(leader) =>
              leader'[Len(leader')].w \notin hist.failed
        /\ \A l \in LoopIds :
              (AttemptEnds(l) /\ Recorded) => loops[l].w \notin hist.failed
      ]_vars

\* C25 - wallet.last_monitored advances only after a full successful scan
\* of the wallet: it is not set in a cycle in which the wallet's fetch
\* failed or the ingestion of one of its trades failed.
C25_StampAfterFullScan ==
    [][ \A w \in WalletIds :
          (~last_monitored[w] /\ last_monitored'[w]) =>
              w \notin (hist'.failed \cup hist'.lost)
      ]_vars

\* the last request served was an operator stop or pause
StopServed == reply.route \in {"stop", "pause"} /\ reply.code = 200

\* C26 - Graceful stop: once an operator stop (or pause) command has been
\* served the monitor loop starts no further cycle, and a monitor task ends
\* only at the top of its loop, never in the middle of a scan.
C26_GracefulStop ==
    [][ /\ StopServed => cycles' = cycles
        /\ \A l \in LoopIds :
              (loops[l].pc # "none" /\ loops'[l].pc = "none") =>
                  loops[l].pc \in {"new", "top"}
      ]_vars

\* this step added exactly one SystemEvent
OneMoreEvent == BagCardinality(events') = BagCardinality(events) + 1

\* C27 - Every execution attempt, whether it ends SIMULATED, EXECUTED or
\* FAILED or in a raised exception, emits exactly one SystemEvent: the step
\* that ends the attempt adds one event, never none and never two.
C27_OneEventPerAttempt ==
    [][ /\ \A l \in LoopIds : AttemptEnds(l) => OneMoreEvent
        /\ \A call \in BagToSet(inflight) : CallEnds(call) => OneMoreEvent
        /\ (impl = "executor" /\ execs' = execs + 1 /\ Recorded)
              => OneMoreEvent
      ]_vars

\* the FollowerTrades of the book executed in the hour that starts at slot t
InWindow(t) ==
    { i \in 1..Len(calc.book) :
        calc.book[i].at >= t /\ calc.book[i].at <= t + SlotsPerHour }

\* C28 - Rate limit: an order is never authorized (by can_open_trade of the
\* package or by can_execute_trade of main.py) when the FollowerTrades of the
\* trailing hour number max_trades_per_hour or more; and with the orders
\* handled one at a time under fixed settings, no one-hour window holds more
\* than max_trades_per_hour FollowerTrades.
C28_RateLimit ==
    /\ calc.snap.recent >= calc.limits.max_trades_per_hour
          => calc.can_open # "allow" /\ calc.can_execute # "allow"
    /\ \A t \in 0..MaxSlots :
          Cardinality(InWindow(t)) <= calc.limits.max_trades_per_hour

\* C29 - Daily loss limit: an order is never authorized when the pnl the
\* FollowerTrades of the day sum to is at or below -daily_loss_limit; and
\* once the losses realised during the day reach daily_loss_limit, no order
\* is authorized.
C29_DailyLossLimit ==
    /\ calc.snap.daily_pnl <= -calc.limits.daily_loss_limit
          => calc.can_open # "allow"
    /\ (calc.order # << >>
          /\ calc.realised <= -calc.limits.daily_loss_limit * UnitsPerDollar)
          => calc.can_open # "allow"

\* C30 - Open-market limit: an order is never authorized when the distinct
\* markets with a Position number max_open_markets or more; and with the
\* orders handled one at a time under fixed settings, the distinct markets
\* with a Position never number more than max_open_markets.
C30_OpenMarketLimit ==
    /\ calc.snap.open_markets >= calc.limits.max_open_markets
          => calc.can_open # "allow"
    /\ RiskManager_get_open_markets_count(positions)
          <= calc.limits.max_open_markets

\* an order on a further market was rejected by the open-market rule alone,
\* with the ledger at the limit
C30_Witness ==
    /\ calc.order # << >>
    /\ calc.can_open = "deny"
    /\ calc.snap.open_markets = calc.limits.max_open_markets
    /\ RiskManager_get_open_markets_count(positions)
          = calc.limits.max_open_markets
    /\ PositionsOf(positions, calc.order[1].market, "0") = {}
    /\ RiskManager_can_open_trade(
          calc.order[1],
          [calc.limits EXCEPT !.max_open_markets = @ + 1], calc.snap)

\* the exposure the last authorization read is at or above the limit
ExposureAtLimit ==
    /\ calc.can_open # "unset"
    /\ calc.snap.exposure
          >= calc.limits.max_exposure_per_market * UnitsPerDollar

\* the rules before the exposure rule passed in the last authorization
EarlierRulesPass ==
    /\ calc.order # << >>
    /\ ~OverDollars(calc.order[1].size, calc.order[1].max_price,
                    calc.limits.max_trade_amount)
    /\ calc.snap.open_markets < calc.limits.max_open_markets

\* C31 as stated - Exposure check: an order is authorized only when the
\* exposure of its market is strictly below max_exposure_per_market, and at
\* the limit or above it is rejected with a reason that names the exposure
\* check.
C31_ExposureReasonAlways ==
    /\ calc.can_open = "allow"
          => calc.snap.exposure
               < calc.limits.max_exposure_per_market * UnitsPerDollar
    /\ ExposureAtLimit
          => calc.can_open = "deny" /\ calc.reason = "Market exposure"

\* C31 - Exposure check: an order is authorized only when the exposure of
\* its market is strictly below max_exposure_per_market; at the limit or
\* above it is rejected, and the reason names the exposure check when the
\* trade-size rule and the open-market rule, which come first, pass; the
\* reason is "OK" exactly for an authorized order.
C31_ExposureCheck ==
    /\ calc.can_open = "allow"
          => calc.snap.exposure
               < calc.limits.max_exposure_per_market * UnitsPerDollar
    /\ ExposureAtLimit => calc.can_open = "deny"
    /\ (ExposureAtLimit /\ EarlierRulesPass)
          => calc.reason = "Market exposure"
    /\ calc.can_open = "allow" <=> calc.reason = "OK"

\* an order on a market whose exposure equals the limit was rejected by the
\* exposure rule
C31_Witness ==
    /\ EarlierRulesPass
    /\ calc.snap.exposure
          = calc.limits.max_exposure_per_market * UnitsPerDollar
    /\ calc.can_open = "deny"
    /\ calc.reason = "Market exposure"

\* some one-hour window holds more FollowerTrades than max_trades_per_hour
Overshoot ==
    \E t \in 0..MaxSlots :
        Cardinality(InWindow(t)) > calc.limits.max_trades_per_hour

\* C32 - Concurrent authorization: two tasks that authorize before either
\* commits its FollowerTrade can both be allowed, and an overshoot of
\* max_trades_per_hour that follows is detected once the trades are
\* committed.
C32_OvershootDetected ==
    (Overshoot /\ \A t \in TaskIds : calc.tasks[t].pc = "idle")
        => calc.detected

RacePairs == { << order.market, order.outcome >> : order \in RiskOrders }

InCycle(lp) == lp.pc \notin {"none", "new", "top"}

\* C34 - Wallet isolation: a failure while a wallet is fetched or its trades
\* are handled does not end the monitor cycle: the loop stays with the
\* wallet's remaining trades or goes on to the next wallet, and a cycle ends
\* only from its last wallet.
C34_WalletIsolation ==
    [][ \A l \in LoopIds :
          /\ (InCycle(loops[l]) /\ ~InCycle(loops'[l]))
                => loops'[l].pc = "top" /\ loops[l].w = NumWallets
          /\ (InCycle(loops[l]) /\ hist'.faults > hist.faults
                /\ loops[l].w < NumWallets)
                => \/ InCycle(loops'[l]) /\ loops'[l].w = loops[l].w
                   \/ loops'[l].pc = "fetch" /\ loops'[l].w = loops[l].w + 1
      ]_vars

\* the first wallet failed in this cycle and the loop is with the second
C34_Witness ==
    \E l \in LoopIds :
        /\ InCycle(loops[l])
        /\ loops[l].w = 2
        /\ 1 \in hist.failed \cup hist.lost

\* C35 - The monitor loop logs and continues: a cycle that raised leaves
\* the loop at its while test, never ended; and while the monitor is not
\* stopped (and cycles are left in the run) a failed cycle is followed by
\* another cycle.
C35_LogAndContinue ==
    /\ [][ \A l \in LoopIds :
              loops[l].pc = "failed" => loops'[l].pc \in {"failed", "top"}
         ]_vars
    /\ \A l \in LoopIds, n \in 0..(MaxCycles - 1) :
          (loops[l].pc = "failed" /\ cycles = n)
              ~> (cycles > n \/ ~is_running)

\* a cycle is under way after a cycle that raised
C35_Witness ==
    \E l \in LoopIds : loops[l].pc = "fetch" /\ hist.faults > 0

\* the market of the metadata passes the filter
MarketPasses(info) ==
    info.present /\ info.active /\ info.volume >= min_market_volume

\* C36 - Market filter: neither strategy produces an order when the
\* market's metadata is unavailable, the market is not active or its volume
\* is below min_market_volume.
C36_MarketFilter ==
    /\ calc.order_app # << >> => MarketPasses(calc.info)
    /\ calc.order_main # << >> => MarketPasses(calc.info)

\* C37 - Sizing and the per-trade risk check agree: every mirror order
\* app/strategy.py produces under a max_trade_amount, a capped one included,
\* has size * max_price <= max_trade_amount and is allowed by can_open_trade
\* under the same settings.
C37_SizingPassesRisk ==
    /\ calc.app # << >>
          => ~OverDollars(calc.app[1].size, calc.app[1].max_price, calc.cap)
    /\ calc.passes # "deny"

\* the task l is a monitor loop that goes on: it is inside a cycle, or it is
\* between cycles and its while test will pass
ActiveLoop(l) ==
    \/ InCycle(loops[l])
    \/ loops[l].pc = "top" /\ is_running

\* C38 - Single monitor loop: under any sequence of start, stop, pause and
\* application-startup events (a stop followed by a start while the previous
\* loop sleeps between cycles included), at most one monitor loop is active
\* at any time, so no wallet is scanned by two loops concurrently.
C38_SingleMonitorLoop ==
    \A l, m \in DOMAIN loops : ActiveLoop(l) /\ ActiveLoop(m) => l = m

\* no operator command is under way (the switch-mode handler is the one
\* command that spans several steps)
CommandsComplete == switch.pc = "idle"

\* the running flag is set, or a created monitor task is about to set it
MonitorOn == is_running \/ \E l \in DOMAIN loops : loops[l].pc = "new"

\* C39 - Status and monitor agree: after every operator command of main.py
\* completes, with or without an error (start, stop, pause, switch-mode,
\* settings update), the persisted global_trading_status is RUNNING if and
\* only if the wallet monitor's running flag is set.  A monitor task that
\* start has created and that has not run yet counts as the flag being set.
C39_StatusMonitorAgree ==
    impl = "main" /\ CommandsComplete =>
        /\ settings.status = "RUNNING" => MonitorOn
        /\ is_running => settings.status = "RUNNING"

\* the markets of the orders
RiskMarkets == { o.market : o \in RiskOrders }

\* C40 - Bounded exposure overshoot: when orders are processed one at a time
\* with fixed settings, after any sequence of authorized executions the
\* exposure of every market (the sum over its positions of size *
\* average_price) stays below max_exposure_per_market + max_trade_amount:
\* the limit is overshot by at most one trade's notional.
C40_BoundedOvershoot ==
    impl = "risk" =>
        \A m \in RiskMarkets :
            RiskManager_get_market_exposure(positions, m)
                < (calc.limits.max_exposure_per_market
                     + calc.limits.max_trade_amount) * UnitsPerDollar

\* a market stands above its exposure limit after two authorized purchases
C40_Witness ==
    /\ impl = "risk"
    /\ Len(follower) >= 2
    /\ \E m \in RiskMarkets :
          RiskManager_get_market_exposure(positions, m)
              > calc.limits.max_exposure_per_market * UnitsPerDollar

====
